---- MODULE Spec2Model ----
(***************************************************************************)
(* State-machine model of the SR-IOV control plane of the ixgbe PF driver  *)
(* (src/src/ixgbe_sriov.c): the VF resource table, the PF<->VF mailbox     *)
(* protocol engine, the per-VF policy handlers and the enable/disable      *)
(* lifecycle.                                                              *)
(*                                                                         *)
(* Handlers are sequential C functions.  Each is modelled as an operator   *)
(* from an adapter record `a` (all driver and device state) to a record    *)
(* [a |-> the adapter afterwards, ret |-> the C return value]; an action   *)
(* applies a whole entry point to the current state and commits the        *)
(* result.                                                                 *)
(***************************************************************************)
EXTENDS Integers, Sequences, FiniteSets, Bags, TLC

(***************************************************************************)
(* Bounds of the model                                                     *)
(***************************************************************************)
\* number of VFs SR-IOV is enabled with in the mailbox specifications
NumVfs == 2
\* hw->mac.num_rar_entries in the mailbox specifications (128 on the real
\* parts); with 2 VFs the MAC-VLAN pool has NumRarEntries - (15 + 1 + 2) slots
NumRarEntries == 20
\* largest VLAN id the environment uses: more VLANs than there are VLVF
\* entries, so that the table runs full
MaxVid == 3
\* largest VF count an administrator asks for in the lifecycle specification
MaxReqVfs == 64

(***************************************************************************)
(* Program constants                                                       *)
(***************************************************************************)
IXGBE_MAX_PF_MACVLANS == 15
IXGBE_MAX_VF_MC_ENTRIES == 30
IXGBE_MAX_VFS_DRV_LIMIT == 63
IXGBE_MAX_VFS_1TC == 63
IXGBE_MAX_VFS_4TC == 31
IXGBE_MAX_VFS_8TC == 15
IXGBE_DCB_MAX_TRAFFIC_CLASS == 8
IXGBE_MAX_JUMBO_FRAME_SIZE == 9728
ETH_HLEN == 14
ETH_FRAME_LEN == 1514
ETH_FCS_LEN == 4
\* number of VLVF pool-filter entries (64 on the real parts, scaled down)
IXGBE_VLVF_ENTRIES == 2

\* errno values, returned negated by the C code
EINVAL == 22
ENOMEM == 12
ENOSPC == 28
EPERM == 1
EOPNOTSUPP == 95
IXGBE_ERR_MBX == -100
IXGBE_ERR_NO_SPACE == -25

\* mailbox opcodes (low 16 bits of msgbuf[0])
IXGBE_VF_RESET == 1
IXGBE_VF_SET_MAC_ADDR == 2
IXGBE_VF_SET_MULTICAST == 3
IXGBE_VF_SET_VLAN == 4
IXGBE_VF_SET_LPE == 5
IXGBE_VF_SET_MACVLAN == 6
IXGBE_VF_API_NEGOTIATE == 8
IXGBE_VF_GET_QUEUES == 9
IXGBE_VF_GET_RETA == 10
IXGBE_VF_GET_RSS_KEY == 11
IXGBE_VF_UPDATE_XCAST_MODE == 12
IXGBE_VF_GET_LINK_STATE == 16
IXGBE_PF_CONTROL_MSG == 256
IXGBE_VF_PERMADDR_MSG_LEN == 4
IXGBE_VFMAILBOX_SIZE == 16

\* enum ixgbe_pfvf_api_rev
ixgbe_mbox_api_10 == 0
ixgbe_mbox_api_20 == 1
ixgbe_mbox_api_11 == 2
ixgbe_mbox_api_12 == 3
ixgbe_mbox_api_13 == 4

\* enum ixgbevf_xcast_modes
IXGBEVF_XCAST_MODE_NONE == 0
IXGBEVF_XCAST_MODE_MULTI == 1
IXGBEVF_XCAST_MODE_ALLMULTI == 2
IXGBEVF_XCAST_MODE_PROMISC == 3

\* enum ixgbe_mac_type (only the order matters)
ixgbe_mac_82599EB == 2
ixgbe_mac_X540 == 3
ixgbe_mac_X550 == 4

\* IXGBE_RTTBCNRC_*: the rate-factor field, 10 bits integer part above 14
\* bits decimal part; the rate scheduler enable bit, bit 31, is kept apart
\* from the field in the model of the register
IXGBE_RTTBCNRC_RF_INT_SHIFT == 14
IXGBE_RTTBCNRC_RF_DEC_MASK == 16383
IXGBE_RTTBCNRC_RF_INT_MASK == 16760832

\* IFLA_VF_LINK_STATE_*
IFLA_VF_LINK_STATE_AUTO == 0
IFLA_VF_LINK_STATE_ENABLE == 1
IFLA_VF_LINK_STATE_DISABLE == 2

(***************************************************************************)
(* Data                                                                    *)
(***************************************************************************)
NULL == <<>>

\* Ethernet addresses are 6 octets
ZeroMac == <<0, 0, 0, 0, 0, 0>>
MacA == <<2, 0, 0, 0, 0, 1>>
MacB == <<2, 0, 0, 0, 0, 2>>
McastMac == <<1, 0, 94, 0, 0, 1>>

is_zero_ether_addr(m) == \A i \in 1..6 : m[i] = 0
is_multicast_ether_addr(m) == m[1] % 2 = 1
is_valid_ether_addr(m) == ~is_multicast_ether_addr(m) /\ ~is_zero_ether_addr(m)

Min(x, y) == IF x < y THEN x ELSE y

\* number of elements of an array indexed from 0
Len2(f) == Cardinality(DOMAIN f)

\* A mailbox message: msgbuf[0] is split into its opcode (low 16 bits), its
\* MSGINFO field (bits 16..23) and its type tags (SUCCESS, FAILURE, CTS);
\* mac, w1 and hashes are the three readings of the payload words
\* (msgbuf[1..2] as an address, msgbuf[1] as a word, msgbuf[1..15] as u16s).
Msg(op, info, tags, mac, w1, hashes) ==
    [op |-> op, info |-> info, tags |-> tags, mac |-> mac, w1 |-> w1,
     hashes |-> hashes]

NoHashes == <<>>

\* the element of a singleton set: Only({e : x \in {v}}) is e with x standing
\* for the value of v
Only(S) == CHOOSE x \in S : TRUE

Ret(a, r) == [a |-> a, ret |-> r]
\* a handler that leaves msgbuf alone
KeepMsg(r, m) == [a |-> r.a, ret |-> r.ret, msg |-> m]

RetMsg(a, r, m) == [a |-> a, ret |-> r, msg |-> m]

(***************************************************************************)
(* State                                                                   *)
(***************************************************************************)
VARIABLES
    num_vfs,        \* adapter->num_vfs
    vfinfo,         \* adapter->vfinfo: NULL or [0..n-1 -> vf_data_storage]
    mv_list,        \* adapter->mv_list: NULL or the MAC-VLAN slots
    flags,          \* adapter->flags (set of flag names)
    flags2,         \* adapter->flags2
    dcb_tcs,        \* adapter->dcb_cfg.num_tcs.pg_tcs / pfc_tcs
    vmdq_offset,    \* adapter->ring_feature[RING_F_VMDQ].offset
    vmdq_limit,     \* adapter->ring_feature[RING_F_VMDQ].limit
    env,            \* what the handlers read from the rest of the driver:
                    \* mac type, netdev TC count, MTU, promiscuity, active VLANs
    mac_table,      \* device MAC filter table (RAR)
    vlvf,           \* VLVF registers: entry -> [vien, vid]
    vlvfb,          \* VLVFB registers: entry -> set of pools
    vfta,           \* VFTA: set of VLAN ids passed by the filter table
    regs,           \* per-VF device registers: VFRE, VFTE, VMOLR, VMVIR, ...
    pci,            \* PCI core state: VFs enabled, VFs assigned, failures
    vf_rate_link_speed, \* adapter->vf_rate_link_speed: 0, or the link speed
                    \* (Mbps) the VF rate limits were computed for
    mbx,            \* mailbox writes of the call that just ran: <<[vf, len, msg]>>
    rst_pending,    \* per VF: a reset was detected and no VF_RESET processed yet
    last            \* the call that just ran: entry point, arguments, return
                    \* value and the adapter on entry; Idle between calls

vars == <<num_vfs, vfinfo, mv_list, flags, flags2, dcb_tcs, vmdq_offset,
          vmdq_limit, env, mac_table, vlvf, vlvfb, vfta, regs, pci,
          vf_rate_link_speed, mbx, rst_pending, last>>

\* the adapter as one record
Adapter ==
    [num_vfs |-> num_vfs, vfinfo |-> vfinfo, mv_list |-> mv_list,
     flags |-> flags, flags2 |-> flags2, dcb_tcs |-> dcb_tcs,
     vmdq_offset |-> vmdq_offset, vmdq_limit |-> vmdq_limit, env |-> env, mac_table |-> mac_table,
     vlvf |-> vlvf, vlvfb |-> vlvfb, vfta |-> vfta, regs |-> regs,
     pci |-> pci, vf_rate_link_speed |-> vf_rate_link_speed, mbx |-> <<>>]

Commit(a) ==
    /\ num_vfs' = a.num_vfs
    /\ vfinfo' = a.vfinfo
    /\ mv_list' = a.mv_list
    /\ flags' = a.flags
    /\ flags2' = a.flags2
    /\ dcb_tcs' = a.dcb_tcs
    /\ vmdq_offset' = a.vmdq_offset
    /\ vmdq_limit' = a.vmdq_limit
    /\ env' = a.env
    /\ mac_table' = a.mac_table
    /\ vlvf' = a.vlvf
    /\ vlvfb' = a.vlvfb
    /\ vfta' = a.vfta
    /\ regs' = a.regs
    /\ pci' = a.pci
    /\ vf_rate_link_speed' = a.vf_rate_link_speed
    /\ mbx' = a.mbx

\* a.vfinfo[vf].f := v
SetVf(a, vf, f, v) == [a EXCEPT !.vfinfo[vf][f] = v]

\* VMDQ_P(0): the pool of the PF
VMDQ_P0(a) == a.vmdq_offset

(***************************************************************************)
(* Register/filter backend (ixgbe_main.c, ixgbe_common.c): not part of the *)
(* file under study, modelled at its interface.                            *)
(***************************************************************************)
\* The MAC filter table holds num_rar_entries addresses.  a.mac_table.pf is
\* the number of entries the PF uses for itself, a.mac_table.vf the bag of
\* <<addr, pool>> entries held for VFs.
MacTableUsed(a) == a.mac_table.pf + BagCardinality(a.mac_table.vf)

\* add_mac_filter(addr, owner_vf) -> Result<slot, Error>
ixgbe_add_mac_filter(a, addr, pool) ==
    IF is_zero_ether_addr(addr) THEN Ret(a, -EINVAL)
    ELSE IF MacTableUsed(a) >= a.env.num_rar_entries THEN Ret(a, -ENOMEM)
    ELSE Ret([a EXCEPT !.mac_table.vf = @ (+) SetToBag({<<addr, pool>>})],
             MacTableUsed(a))

\* remove_mac_filter(addr, owner_vf)
ixgbe_del_mac_filter(a, addr, pool) ==
    IF is_zero_ether_addr(addr) THEN Ret(a, -EINVAL)
    ELSE IF ~BagIn(<<addr, pool>>, a.mac_table.vf) THEN Ret(a, -ENOMEM)
    ELSE Ret([a EXCEPT !.mac_table.vf = @ (-) SetToBag({<<addr, pool>>})], 0)

VlvfEmpty == [vien |-> FALSE, vid |-> 0]
VlvfIdx == 0..(IXGBE_VLVF_ENTRIES - 1)

\* highest entry in 1..N-1 satisfying P, or 0
HighestVlvf(P(_)) ==
    IF \E i \in VlvfIdx \ {0} : P(i)
    THEN CHOOSE i \in VlvfIdx \ {0} :
             P(i) /\ \A j \in VlvfIdx \ {0} : P(j) => j <= i
    ELSE 0

\* the VLVF entry to use for a VLAN: entry 0 for VLAN 0, the entry already
\* holding the VLAN, else an empty entry, else no space
ixgbe_find_vlvf_slot(a, vlan) ==
    LET hit(i) == a.vlvf[i] = [vien |-> TRUE, vid |-> vlan]
        free(i) == a.vlvf[i] = VlvfEmpty
    IN  IF vlan = 0 THEN 0
        ELSE Only({ IF h # 0 THEN h
                    ELSE IF f # 0 THEN f
                    ELSE IXGBE_ERR_NO_SPACE
                    : h \in {HighestVlvf(hit)}, f \in {HighestVlvf(free)} })

\* the VLVF entry whose VLAN id field is vlan, 0 when there is none
ixgbe_find_vlvf_entry(a, vlan) ==
    LET hit(i) == a.vlvf[i].vid = vlan
    IN  IF vlan = 0 THEN 0 ELSE HighestVlvf(hit)

\* hw->mac.ops.set_vfta(hw, vlan, vind, vlan_on, false): add pool vind to, or
\* remove it from, the filter of a VLAN.  Removing the last pool frees the
\* VLVF entry and clears the VFTA bit; the VFTA bit is left alone while other
\* pools remain.
set_vfta(a, vlan, vind, vlan_on) ==
    Only({ IF idx < 0 THEN Ret(a, idx)
           ELSE IF vlan_on
           THEN Ret([a EXCEPT !.vlvfb[idx] = @ \cup {vind},
                              !.vlvf[idx] = [vien |-> TRUE, vid |-> vlan],
                              !.vfta = @ \cup {vlan}], 0)
           ELSE IF a.vlvfb[idx] \ {vind} = {}
           THEN Ret([a EXCEPT !.vfta = @ \ {vlan},
                              !.vlvf[idx] = VlvfEmpty,
                              !.vlvfb[idx] = {}], 0)
           ELSE Ret([a EXCEPT !.vlvfb[idx] = @ \ {vind},
                              !.vlvf[idx] = [vien |-> TRUE, vid |-> vlan]], 0)
           : idx \in {ixgbe_find_vlvf_slot(a, vlan)} })

\* Revoke the PF's passive entry for a VLAN once no other pool references it:
\* the VLVF entry is disabled, and the PF pool bit dropped unless the PF is
\* VLAN-promiscuous (then it keeps its bit on every entry).
ixgbe_update_pf_promisc_vlvf(a, vid) ==
    Only({ IF idx = 0 THEN a
           ELSE IF a.vlvfb[idx] \ {VMDQ_P0(a)} # {} THEN a
           ELSE [a EXCEPT !.vlvfb[idx] =
                              IF "VLAN_PROMISC" \in a.flags2 THEN @ ELSE {},
                          !.vlvf[idx] = VlvfEmpty]
           : idx \in {ixgbe_find_vlvf_entry(a, vid)} })


\* number of MAC filter entries nobody uses
ixgbe_available_rars(a) == a.env.num_rar_entries - MacTableUsed(a)

\* ixgbe_write_uc_addr_list(netdev, vfn) for the PF: its secondary unicast
\* addresses replace the ones it had, when the table has room for all of them
ixgbe_write_uc_addr_list(a, count) ==
    IF count > a.env.num_rar_entries - 1 - BagCardinality(a.mac_table.vf)
    THEN Ret(a, -ENOMEM)
    ELSE Ret([a EXCEPT !.mac_table.pf = 1 + count], count)

\* ixgbe_write_mbx(hw, msg, size, vf)
ixgbe_write_mbx(a, msg, size, vf) ==
    [a EXCEPT !.mbx = Append(@, [vf |-> vf, len |-> size, msg |-> msg])]

\* hw->mac.ops.set_mac_anti_spoofing / set_vlan_anti_spoofing
set_mac_anti_spoofing(a, enable, vf) ==
    [a EXCEPT !.regs.mac_spoof = IF enable THEN @ \cup {vf} ELSE @ \ {vf}]

set_vlan_anti_spoofing(a, enable, vf) ==
    [a EXCEPT !.regs.vlan_spoof = IF enable THEN @ \cup {vf} ELSE @ \ {vf}]

\* hw->mac.ops.mdd_event: the detection has blocked the queues of the pools
\* of vf_bitmap and reports them
mdd_event(a, vf_bitmap) == [a EXCEPT !.regs.mdd_blocked = vf_bitmap]

\* hw->mac.ops.restore_mdd_vf: the queues of the pool work again
restore_mdd_vf(a, vf) == [a EXCEPT !.regs.mdd_blocked = @ \ {vf}]

\* hw->mac.ops.set_ethertype_anti_spoofing: an operation of X550 and later
set_ethertype_anti_spoofing(a, enable, vf) ==
    IF a.env.mac_type < ixgbe_mac_X550 THEN a
    ELSE [a EXCEPT !.regs.ethertype_spoof =
                      IF enable THEN @ \cup {vf} ELSE @ \ {vf}]

(***************************************************************************)
(* ixgbe_sriov.c: multicast                                                *)
(***************************************************************************)
\* the first n elements of a function on 1..k
RECURSIVE HashSet(_, _)
HashSet(h, n) == IF n = 0 THEN {} ELSE HashSet(h, n - 1) \cup {h[n] % 4096}

ixgbe_restore_vf_multicasts(a) ==
    LET vfs == 0..(a.num_vfs - 1)
    IN  [a EXCEPT
          !.regs.mta = UNION {HashSet(a.vfinfo[i].vf_mc_hashes,
                                      a.vfinfo[i].num_vf_mc_hashes) : i \in vfs},
          !.regs.vmolr = [i \in DOMAIN @ |->
                            IF i \in vfs
                            THEN IF a.vfinfo[i].num_vf_mc_hashes # 0
                                 THEN @[i] \cup {"ROMPE"}
                                 ELSE @[i] \ {"ROMPE"}
                            ELSE @[i]]]

\* ixgbe_write_mc_addr_list(netdev) and ixgbe_set_rx_mode(netdev) rebuild the
\* shared multicast table from the PF list and every VF's hashes
ixgbe_write_mc_addr_list(a) == ixgbe_restore_vf_multicasts(a)

ixgbe_set_rx_mode(a) == ixgbe_restore_vf_multicasts(a)

\* ixgbe_set_vf_multicasts storing the count and not the hashes
set_vf_multicasts_count_only(a, msg, vf) ==
    LET entries == Min(msg.info, IXGBE_MAX_VF_MC_ENTRIES)
        a1 == SetVf(a, vf, "num_vf_mc_hashes", entries)
        a3 == [a1 EXCEPT !.regs.vmolr[vf] = @ \cup {"ROMPE"}]
    IN  Ret(ixgbe_write_mc_addr_list(a3), 0)

ixgbe_set_vf_multicasts(a, msg, vf) ==
    LET entries == Min(msg.info, IXGBE_MAX_VF_MC_ENTRIES)
        a1 == SetVf(a, vf, "num_vf_mc_hashes", entries)
        a2 == SetVf(a1, vf, "vf_mc_hashes",
                    [i \in 1..IXGBE_MAX_VF_MC_ENTRIES |->
                       IF i <= entries THEN msg.hashes[i]
                       ELSE a.vfinfo[vf].vf_mc_hashes[i]])
        a3 == [a2 EXCEPT !.regs.vmolr[vf] = @ \cup {"ROMPE"}]
    IN  Ret(ixgbe_write_mc_addr_list(a3), 0)


(***************************************************************************)
(* ixgbe_sriov.c: VLAN filters                                             *)
(***************************************************************************)

\* ixgbe_set_vf_vlan never revoking the entry of the PF
set_vf_vlan_keep_pf(a, add, vid, vf) ==
    Only({ IF pf.ret # 0 THEN pf ELSE set_vfta(pf.a, vid, vf, add)
           : pf \in {IF add /\ vid \in a.env.active_vlans
                     THEN set_vfta(a, vid, VMDQ_P0(a), TRUE)
                     ELSE Ret(a, 0)} })

ixgbe_set_vf_vlan(a, add, vid, vf) ==
    \* pf: the PF pool is added first when the PF monitors the VLAN
    \* r: the VF pool is added or removed
    Only({ IF pf.ret # 0 THEN pf
           ELSE Only({ IF add /\ r.ret = 0 THEN r
                       ELSE IF vid \in a.env.active_vlans
                               \/ "VLAN_PROMISC" \in a.flags2
                       THEN Ret(ixgbe_update_pf_promisc_vlvf(r.a, vid), r.ret)
                       ELSE r
                       : r \in {set_vfta(pf.a, vid, vf, add)} })
           : pf \in {IF add /\ vid \in a.env.active_vlans
                     THEN set_vfta(a, vid, VMDQ_P0(a), TRUE)
                     ELSE Ret(a, 0)} })

ixgbe_set_vmolr(a, vf, aupe) ==
    [a EXCEPT !.regs.vmolr[vf] =
         IF aupe THEN @ \cup {"BAM", "AUPE"} ELSE (@ \cup {"BAM"}) \ {"AUPE"}]

ixgbe_set_vmvir(a, vid, qos, vf) ==
    [a EXCEPT !.regs.vmvir[vf] = [vlana |-> TRUE, vid |-> vid, qos |-> qos]]

ixgbe_clear_vmvir(a, vf) ==
    [a EXCEPT !.regs.vmvir[vf] = [vlana |-> FALSE, vid |-> 0, qos |-> 0]]

\* one iteration of the loop of ixgbe_clear_vf_vlans, for VLVF entry i
clear_vf_vlans_entry(a, vf, i) ==
    LET vlvfb_i == a.vlvfb[i] \ {vf}
        promisc == "VLAN_PROMISC" \in a.flags2
        update_vlvf(b) == [b EXCEPT !.vlvf[i] = VlvfEmpty,
                                    !.vlvfb[i] = IF promisc THEN vlvfb_i ELSE {}]
    IN  IF vf \notin a.vlvfb[i] THEN a
        \* other pools are present: just remove ourselves
        ELSE IF vlvfb_i \ {VMDQ_P0(a)} # {}
        THEN [a EXCEPT !.vlvfb[i] = vlvfb_i]
        \* the PF is present: leave VFTA
        ELSE IF vlvfb_i # {} THEN update_vlvf(a)
        \* the VLAN cannot be determined: just remove ourselves
        ELSE IF a.vlvf[i] = VlvfEmpty THEN [a EXCEPT !.vlvfb[i] = vlvfb_i]
        ELSE update_vlvf([a EXCEPT !.vfta = @ \ {a.vlvf[i].vid}])

\* entries n-1 down to 0
RECURSIVE clear_vf_vlans_from(_, _, _)
clear_vf_vlans_from(a, vf, n) ==
    IF n = 0 THEN a
    ELSE clear_vf_vlans_from(clear_vf_vlans_entry(a, vf, n - 1), vf, n - 1)


\* ixgbe_clear_vf_vlans leaving every filter in place
clear_vf_vlans_none(a, vf) == a

ixgbe_clear_vf_vlans(a, vf) == clear_vf_vlans_from(a, vf, IXGBE_VLVF_ENTRIES)

(***************************************************************************)
(* ixgbe_sriov.c: MAC-VLAN slots                                           *)
(***************************************************************************)
MvFree == [vf |-> -1, free |-> TRUE, is_macvlan |-> FALSE, vf_macvlan |-> ZeroMac]

\* number of slots: num_rar_entries - (IXGBE_MAX_PF_MACVLANS + 1 + num_vfs)
num_vf_macvlans(a, n) ==
    a.env.num_rar_entries - (IXGBE_MAX_PF_MACVLANS + 1 + n)

\* kcalloc either succeeds or returns NULL (it always does for a negative
\* count); the list is left alone when there are no slots to allocate
ixgbe_alloc_vf_macvlans(a, n, alloc_ok) ==
    IF num_vf_macvlans(a, n) <= 0 \/ ~alloc_ok THEN a
    ELSE [a EXCEPT !.mv_list = [i \in 0..(num_vf_macvlans(a, n) - 1) |-> MvFree]]

\* mv_release keeping the owner of the slots it frees
RECURSIVE mv_release_keep_owner(_, _, _)
mv_release_keep_owner(a, vf, n) ==
    IF n = 0 THEN a
    ELSE LET i == n - 1
             e == a.mv_list[i]
             a1 == IF e.vf = vf
                   THEN ixgbe_del_mac_filter(
                            [a EXCEPT !.mv_list[i] =
                                 [e EXCEPT !.free = TRUE, !.is_macvlan = FALSE]],
                            e.vf_macvlan, vf).a
                   ELSE a
         IN  mv_release_keep_owner(a1, vf, i)

\* mv_release not looking at the owner: every slot in use is freed
RECURSIVE mv_release_any_owner(_, _, _)
mv_release_any_owner(a, vf, n) ==
    IF n = 0 THEN a
    ELSE LET i == n - 1
             e == a.mv_list[i]
             a1 == IF ~e.free
                   THEN ixgbe_del_mac_filter(
                            [a EXCEPT !.mv_list[i] =
                                 [e EXCEPT !.vf = -1, !.free = TRUE,
                                           !.is_macvlan = FALSE]],
                            e.vf_macvlan, vf).a
                   ELSE a
         IN  mv_release_any_owner(a1, vf, i)

\* list order of adapter->vf_mvs.l: list_add() puts each slot at the head, so
\* the walk visits the slots from the last index down to 0
RECURSIVE mv_release(_, _, _)
mv_release(a, vf, n) ==
    IF n = 0 THEN a
    ELSE LET i == n - 1
             e == a.mv_list[i]
             a1 == IF e.vf = vf
                   THEN ixgbe_del_mac_filter(
                            [a EXCEPT !.mv_list[i] =
                                 [e EXCEPT !.vf = -1, !.free = TRUE,
                                           !.is_macvlan = FALSE]],
                            e.vf_macvlan, vf).a
                   ELSE a
         IN  mv_release(a1, vf, i)

\* the first free slot of the walk; -1 when the walk ends on a used slot or
\* the list is empty
mv_first_free(a) ==
    LET idx == DOMAIN a.mv_list
    IN  IF \E i \in idx : a.mv_list[i].free
        THEN CHOOSE i \in idx :
                 a.mv_list[i].free /\ \A j \in idx : a.mv_list[j].free => j <= i
        ELSE -1


\* set_vf_macvlan_add taking slot 0 over when no slot is free
set_vf_macvlan_add_reuse(a, vf, index, mac_addr) ==
    IF index = 0 THEN Ret(a, 0)
    ELSE Only({ IF r.ret < 0 THEN r
                ELSE Ret([r.a EXCEPT !.mv_list[IF mv_first_free(a) = -1 THEN 0
                                               ELSE mv_first_free(a)] =
                              [vf |-> vf, free |-> FALSE, is_macvlan |-> TRUE,
                               vf_macvlan |-> mac_addr]], 0)
                : r \in {ixgbe_add_mac_filter(a, mac_addr, vf)} })

\* set_vf_macvlan_add marking the slot before it looks at the result of
\* ixgbe_add_mac_filter
set_vf_macvlan_add_mark_first(a, vf, index, mac_addr) ==
    IF index = 0 THEN Ret(a, 0)
    ELSE IF mv_first_free(a) = -1 THEN Ret(a, -ENOSPC)
    ELSE Only({ Ret([r.a EXCEPT !.mv_list[mv_first_free(a)] =
                         [vf |-> vf, free |-> FALSE, is_macvlan |-> TRUE,
                          vf_macvlan |-> mac_addr]],
                    IF r.ret < 0 THEN r.ret ELSE 0)
                : r \in {ixgbe_add_mac_filter(a, mac_addr, vf)} })

\* ixgbe_set_vf_macvlan once the slots of the caller are released
set_vf_macvlan_add(a, vf, index, mac_addr) ==
    IF index = 0 THEN Ret(a, 0)
    ELSE IF mv_first_free(a) = -1 THEN Ret(a, -ENOSPC)
    ELSE Only({ IF r.ret < 0 THEN r
                ELSE Ret([r.a EXCEPT !.mv_list[mv_first_free(a)] =
                              [vf |-> vf, free |-> FALSE, is_macvlan |-> TRUE,
                               vf_macvlan |-> mac_addr]], 0)
                : r \in {ixgbe_add_mac_filter(a, mac_addr, vf)} })

ixgbe_set_vf_macvlan(a, vf, index, mac_addr) ==
    set_vf_macvlan_add(IF index <= 1 THEN mv_release(a, vf, Len2(a.mv_list))
                       ELSE a,
                       vf, index, mac_addr)

(***************************************************************************)
(* ixgbe_sriov.c: VF reset                                                 *)
(***************************************************************************)
\* the outgoing tag of the VF after a reset
vf_reset_vmvir(a, vf) ==
    IF a.vfinfo[vf].pf_vlan = 0 /\ a.vfinfo[vf].pf_qos = 0 /\ a.env.num_tc = 0
    THEN ixgbe_clear_vmvir(a, vf)
    ELSE IF a.vfinfo[vf].pf_qos # 0 \/ a.env.num_tc = 0
    THEN ixgbe_set_vmvir(a, a.vfinfo[vf].pf_vlan, a.vfinfo[vf].pf_qos, vf)
    ELSE ixgbe_set_vmvir(a, a.vfinfo[vf].pf_vlan, a.env.default_up, vf)

\* the reset processing leaving the API version of the VF alone
vf_reset_event_keep_api(a, vf) ==
    LET v == a.vfinfo[vf]
        a1 == ixgbe_clear_vf_vlans(a, vf)
        a2 == ixgbe_set_vf_vlan(a1, TRUE, v.pf_vlan, vf).a
        a3 == ixgbe_set_vmolr(a2, vf, v.pf_vlan = 0)
        a4 == vf_reset_vmvir(a3, vf)
        a5 == ixgbe_set_rx_mode(SetVf(a4, vf, "num_vf_mc_hashes", 0))
        a6 == ixgbe_del_mac_filter(a5, v.vf_mac_addresses, vf).a
    IN  ixgbe_set_vf_macvlan(a6, vf, 0, ZeroMac).a

ixgbe_vf_reset_event(a, vf) ==
    LET v == a.vfinfo[vf]
        a1 == ixgbe_clear_vf_vlans(a, vf)
        a2 == ixgbe_set_vf_vlan(a1, TRUE, v.pf_vlan, vf).a
        a3 == ixgbe_set_vmolr(a2, vf, v.pf_vlan = 0)
        a4 == vf_reset_vmvir(a3, vf)
        a5 == ixgbe_set_rx_mode(SetVf(a4, vf, "num_vf_mc_hashes", 0))
        a6 == ixgbe_del_mac_filter(a5, v.vf_mac_addresses, vf).a
        a7 == ixgbe_set_vf_macvlan(a6, vf, 0, ZeroMac).a
    IN  SetVf(a7, vf, "vf_api", ixgbe_mbox_api_10)

\* ixgbe_set_vf_mac leaving the record alone when the filter cannot be added
set_vf_mac_keep_record(a, vf, mac_addr) ==
    Only({ Ret(IF r.ret >= 0
               THEN SetVf(r.a, vf, "vf_mac_addresses", mac_addr) ELSE r.a,
               r.ret)
           : r \in {ixgbe_add_mac_filter(
                        ixgbe_del_mac_filter(a, a.vfinfo[vf].vf_mac_addresses,
                                             vf).a,
                        mac_addr, vf)} })

ixgbe_set_vf_mac(a, vf, mac_addr) ==
    Only({ Ret(SetVf(r.a, vf, "vf_mac_addresses",
                     IF r.ret >= 0 THEN mac_addr ELSE ZeroMac), r.ret)
           : r \in {ixgbe_add_mac_filter(
                        ixgbe_del_mac_filter(a, a.vfinfo[vf].vf_mac_addresses,
                                             vf).a,
                        mac_addr, vf)} })

ixgbe_write_qde(a, vf, qde) == [a EXCEPT !.regs.qde[vf] = qde]

ixgbe_set_vf_rx_tx(a, vf) ==
    LET en == a.vfinfo[vf].link_enable
        pf_max_frame == a.env.mtu + ETH_HLEN
        rx_off == a.env.mac_type = ixgbe_mac_82599EB /\ pf_max_frame > ETH_FRAME_LEN
    IN  [a EXCEPT !.regs.vfte = IF en THEN @ \cup {vf} ELSE @ \ {vf},
                  !.regs.vfre = IF rx_off THEN @ \ {vf}
                                ELSE IF en THEN @ \cup {vf} ELSE @ \ {vf}]

\* ixgbe_vf_reset_msg after ixgbe_vf_reset_event: the MAC address of the VF
\* is put back into the filter table
vf_reset_msg_mac(a, vf) ==
    IF ~is_zero_ether_addr(a.vfinfo[vf].vf_mac_addresses)
    THEN ixgbe_set_vf_mac(a, vf, a.vfinfo[vf].vf_mac_addresses).a
    ELSE a

\* vf_reset_msg_enable leaving clear_to_send as it was
vf_reset_msg_enable_keep_cts(a, vf) ==
    [ixgbe_set_vf_rx_tx(
         ixgbe_write_qde(a, vf, IF a.vfinfo[vf].pf_vlan # 0
                                THEN {"ENABLE", "HIDE_VLAN"} ELSE {"ENABLE"}),
         vf)
       EXCEPT !.regs.vmecm = @ \cup {vf}]

\* ... the queues of the VF are enabled and the VF may send
vf_reset_msg_enable(a, vf) ==
    [ixgbe_set_vf_rx_tx(
         ixgbe_write_qde(a, vf, IF a.vfinfo[vf].pf_vlan # 0
                                THEN {"ENABLE", "HIDE_VLAN"} ELSE {"ENABLE"}),
         vf)
       EXCEPT !.vfinfo[vf].clear_to_send = TRUE,
              !.regs.vmecm = @ \cup {vf}]

\* vf_reset_msg_reply answering SUCCESS for any non-zero address
vf_reset_msg_reply_any_mac(a, vf) ==
    Ret(ixgbe_write_mbx(
            a,
            IF ~is_zero_ether_addr(a.vfinfo[vf].vf_mac_addresses)
            THEN Msg(IXGBE_VF_RESET, 0, {"SUCCESS"},
                     a.vfinfo[vf].vf_mac_addresses, 0, NoHashes)
            ELSE Msg(IXGBE_VF_RESET, 0, {"FAILURE"}, ZeroMac, 0, NoHashes),
            IXGBE_VF_PERMADDR_MSG_LEN, vf), 0)

\* ... and the VF is answered with its permanent address
vf_reset_msg_reply(a, vf) ==
    Ret(ixgbe_write_mbx(
            a,
            IF ~is_zero_ether_addr(a.vfinfo[vf].vf_mac_addresses)
                 /\ a.vfinfo[vf].pf_set_mac
            THEN Msg(IXGBE_VF_RESET, 0, {"SUCCESS"},
                     a.vfinfo[vf].vf_mac_addresses, 0, NoHashes)
            ELSE Msg(IXGBE_VF_RESET, 0, {"FAILURE"}, ZeroMac, 0, NoHashes),
            IXGBE_VF_PERMADDR_MSG_LEN, vf), 0)

ixgbe_vf_reset_msg(a, vf) ==
    vf_reset_msg_reply(
        vf_reset_msg_enable(
            vf_reset_msg_mac(ixgbe_vf_reset_event(a, vf), vf), vf), vf)


(***************************************************************************)
(* ixgbe_sriov.c: mailbox message handlers                                 *)
(***************************************************************************)
\* ixgbe_set_vf_mac_addr without the test of the administratively set address
set_vf_mac_addr_unchecked(a, msg, vf) ==
    IF ~is_valid_ether_addr(msg.mac) THEN Ret(a, -1)
    ELSE Only({ Ret(r.a, IF r.ret < 0 THEN 1 ELSE 0)
                : r \in {ixgbe_set_vf_mac(a, vf, msg.mac)} })

ixgbe_set_vf_mac_addr(a, msg, vf) ==
    IF ~is_valid_ether_addr(msg.mac) THEN Ret(a, -1)
    ELSE IF a.vfinfo[vf].pf_set_mac /\ ~a.vfinfo[vf].trusted
            /\ a.vfinfo[vf].vf_mac_addresses # msg.mac
    THEN Ret(a, -1)
    ELSE Only({ Ret(r.a, IF r.ret < 0 THEN 1 ELSE 0)
                : r \in {ixgbe_set_vf_mac(a, vf, msg.mac)} })

\* ixgbe_set_vf_vlan_msg looking at the traffic classes only
set_vf_vlan_msg_unpinned(a, msg, vf) ==
    LET add == msg.info # 0
        vid == msg.w1 % 4096
        tcs == a.env.num_tc
    IN  IF tcs # 0 THEN Ret(a, -1)
        ELSE IF vid = 0 /\ ~add THEN Ret(a, 0)
        ELSE ixgbe_set_vf_vlan(a, add, vid, vf)

ixgbe_set_vf_vlan_msg(a, msg, vf) ==
    LET add == msg.info # 0
        vid == msg.w1 % 4096
        tcs == a.env.num_tc
    IN  IF a.vfinfo[vf].pf_vlan # 0 \/ tcs # 0 THEN Ret(a, -1)
        ELSE IF vid = 0 /\ ~add THEN Ret(a, 0)
        ELSE ixgbe_set_vf_vlan(a, add, vid, vf)

\* 82599EB: -EINVAL when the VF may not receive frames of max_frame octets
set_vf_lpe_err(a, max_frame, vf) ==
    IF a.vfinfo[vf].vf_api \in {ixgbe_mbox_api_11, ixgbe_mbox_api_12,
                                ixgbe_mbox_api_13}
         /\ a.env.mtu + ETH_HLEN > ETH_FRAME_LEN
    THEN 0
    ELSE IF a.env.mtu + ETH_HLEN > ETH_FRAME_LEN
              \/ max_frame > ETH_FRAME_LEN + ETH_FCS_LEN
    THEN -EINVAL
    ELSE 0

\* MAXFRS only grows
set_vf_lpe_maxfrs(a, max_frame) ==
    IF a.regs.maxfrs < max_frame
    THEN Ret([a EXCEPT !.regs.maxfrs = max_frame], 0)
    ELSE Ret(a, 0)

ixgbe_set_vf_lpe(a, max_frame, vf) ==
    IF a.env.mac_type # ixgbe_mac_82599EB THEN set_vf_lpe_maxfrs(a, max_frame)
    ELSE IF set_vf_lpe_err(a, max_frame, vf) # 0
    THEN Ret([a EXCEPT !.regs.vfre = @ \ {vf}], -EINVAL)
    ELSE set_vf_lpe_maxfrs([a EXCEPT !.regs.vfre = @ \cup {vf}], max_frame)

ixgbe_set_vf_macvlan_msg(a, msg, vf) ==
    IF a.vfinfo[vf].pf_set_mac /\ ~a.vfinfo[vf].trusted /\ msg.info > 0
    THEN Ret(a, -1)
    ELSE IF msg.info # 0 /\ ~is_valid_ether_addr(msg.mac) THEN Ret(a, -1)
    ELSE Only({ Ret(r.a, IF r.ret < 0 THEN 1 ELSE 0)
                : r \in {ixgbe_set_vf_macvlan(
                             IF msg.info # 0 /\ a.vfinfo[vf].spoofchk_enabled
                             THEN set_vlan_anti_spoofing(
                                      set_mac_anti_spoofing(a, FALSE, vf),
                                      FALSE, vf)
                             ELSE a,
                             vf, msg.info, msg.mac)} })

\* the versions ixgbe_negotiate_vf_api accepts
SupportedApis ==
    {ixgbe_mbox_api_10, ixgbe_mbox_api_11, ixgbe_mbox_api_12, ixgbe_mbox_api_13}

\* ixgbe_negotiate_vf_api storing the version before it looks at it
negotiate_vf_api_unchecked(a, msg, vf) ==
    Ret(SetVf(a, vf, "vf_api", msg.w1),
        IF msg.w1 \in SupportedApis THEN 0 ELSE -1)

ixgbe_negotiate_vf_api(a, msg, vf) ==
    LET api == msg.w1
    IN  IF api \in {ixgbe_mbox_api_10, ixgbe_mbox_api_11, ixgbe_mbox_api_12,
                    ixgbe_mbox_api_13}
        THEN Ret(SetVf(a, vf, "vf_api", api), 0)
        ELSE Ret(a, -1)

\* the handlers below also write into msgbuf: the third field is msgbuf as
\* the reply will carry it
ixgbe_get_vf_queues(a, msg, vf) ==
    IF a.vfinfo[vf].vf_api \in {ixgbe_mbox_api_20, ixgbe_mbox_api_11,
                                ixgbe_mbox_api_12, ixgbe_mbox_api_13}
    THEN RetMsg(a, 0, [msg EXCEPT !.w1 = a.env.q_per_pool])
    ELSE RetMsg(a, -1, msg)

ixgbe_get_vf_reta(a, msg, vf) ==
    IF ~a.vfinfo[vf].rss_query_enabled THEN RetMsg(a, -EPERM, msg)
    ELSE IF a.vfinfo[vf].vf_api \in {ixgbe_mbox_api_12, ixgbe_mbox_api_13}
    THEN RetMsg(a, 0, msg)
    ELSE RetMsg(a, -EOPNOTSUPP, msg)

ixgbe_get_vf_rss_key(a, msg, vf) ==
    IF ~a.vfinfo[vf].rss_query_enabled THEN RetMsg(a, -EPERM, msg)
    ELSE IF a.vfinfo[vf].vf_api \in {ixgbe_mbox_api_12, ixgbe_mbox_api_13}
    THEN RetMsg(a, 0, msg)
    ELSE RetMsg(a, -EOPNOTSUPP, msg)

\* VMOLR bits a mode turns on; every other mode bit is turned off, except
\* that the modes above NONE leave BAM and ROMPE as they find them
XcastEnable(mode) ==
    CASE mode = IXGBEVF_XCAST_MODE_NONE -> {}
      [] mode = IXGBEVF_XCAST_MODE_MULTI -> {"BAM", "ROMPE"}
      [] mode = IXGBEVF_XCAST_MODE_ALLMULTI -> {"BAM", "ROMPE", "MPE"}
      [] mode = IXGBEVF_XCAST_MODE_PROMISC ->
             {"BAM", "ROMPE", "MPE", "UPE", "VPE"}

XcastDisable(mode) ==
    CASE mode = IXGBEVF_XCAST_MODE_NONE -> {"BAM", "ROMPE", "MPE", "UPE", "VPE"}
      [] mode = IXGBEVF_XCAST_MODE_MULTI -> {"MPE", "UPE", "VPE"}
      [] mode = IXGBEVF_XCAST_MODE_ALLMULTI -> {"UPE", "VPE"}
      [] mode = IXGBEVF_XCAST_MODE_PROMISC -> {}

\* ixgbe_update_vf_xcast_mode without the downgrade of untrusted VFs
update_vf_xcast_mode_any(a, msg, vf) ==
    LET v == a.vfinfo[vf]
        reply == msg
    IN  IF v.vf_api = ixgbe_mbox_api_12 /\ msg.w1 = IXGBEVF_XCAST_MODE_PROMISC
        THEN RetMsg(a, -EOPNOTSUPP, msg)
        ELSE IF v.vf_api \notin {ixgbe_mbox_api_12, ixgbe_mbox_api_13}
        THEN RetMsg(a, -EOPNOTSUPP, msg)
        ELSE IF v.xcast_mode = msg.w1 THEN RetMsg(a, 0, reply)
        ELSE IF msg.w1 \notin IXGBEVF_XCAST_MODE_NONE..IXGBEVF_XCAST_MODE_PROMISC
        THEN RetMsg(a, -EOPNOTSUPP, msg)
        ELSE IF msg.w1 = IXGBEVF_XCAST_MODE_PROMISC
                /\ a.env.mac_type <= ixgbe_mac_82599EB
        THEN RetMsg(a, -EOPNOTSUPP, msg)
        ELSE IF msg.w1 = IXGBEVF_XCAST_MODE_PROMISC /\ ~a.env.fctrl_upe
        THEN RetMsg(a, -EPERM, msg)
        ELSE RetMsg(SetVf([a EXCEPT !.regs.vmolr[vf] =
                               (@ \ XcastDisable(msg.w1))
                                 \cup XcastEnable(msg.w1)],
                          vf, "xcast_mode", msg.w1),
                    0, reply)

ixgbe_update_vf_xcast_mode(a, msg, vf) ==
    LET v == a.vfinfo[vf]
        xcast_mode == IF msg.w1 > IXGBEVF_XCAST_MODE_MULTI /\ ~v.trusted
                      THEN IXGBEVF_XCAST_MODE_MULTI ELSE msg.w1
        reply == [msg EXCEPT !.w1 = xcast_mode]
    IN  IF v.vf_api = ixgbe_mbox_api_12 /\ msg.w1 = IXGBEVF_XCAST_MODE_PROMISC
        THEN RetMsg(a, -EOPNOTSUPP, msg)
        ELSE IF v.vf_api \notin {ixgbe_mbox_api_12, ixgbe_mbox_api_13}
        THEN RetMsg(a, -EOPNOTSUPP, msg)
        ELSE IF v.xcast_mode = xcast_mode THEN RetMsg(a, 0, reply)
        ELSE IF xcast_mode \notin IXGBEVF_XCAST_MODE_NONE..IXGBEVF_XCAST_MODE_PROMISC
        THEN RetMsg(a, -EOPNOTSUPP, msg)
        ELSE IF xcast_mode = IXGBEVF_XCAST_MODE_PROMISC
                /\ a.env.mac_type <= ixgbe_mac_82599EB
        THEN RetMsg(a, -EOPNOTSUPP, msg)
        ELSE IF xcast_mode = IXGBEVF_XCAST_MODE_PROMISC /\ ~a.env.fctrl_upe
        THEN RetMsg(a, -EPERM, msg)
        ELSE RetMsg(SetVf([a EXCEPT !.regs.vmolr[vf] =
                               (@ \ XcastDisable(xcast_mode))
                                 \cup XcastEnable(xcast_mode)],
                          vf, "xcast_mode", xcast_mode),
                    0, reply)

ixgbe_get_vf_link_state(a, msg, vf) ==
    IF a.vfinfo[vf].vf_api \in {ixgbe_mbox_api_12, ixgbe_mbox_api_13}
    THEN RetMsg(a, 0, [msg EXCEPT !.w1 =
                           IF a.vfinfo[vf].link_enable THEN 1 ELSE 0])
    ELSE RetMsg(a, -EOPNOTSUPP, msg)

\* the switch on (msgbuf[0] & 0xFFFF): the handler's result and msgbuf after
\* it.  SET_LPE with a frame size above the jumbo limit is not a case of the
\* switch: ixgbe_rcv_msg_from_vf returns from inside it.
Dispatch(a, msg, vf) ==
    CASE msg.op = IXGBE_VF_SET_MAC_ADDR ->
             KeepMsg(ixgbe_set_vf_mac_addr(a, msg, vf), msg)
      [] msg.op = IXGBE_VF_SET_MULTICAST ->
             KeepMsg(ixgbe_set_vf_multicasts(a, msg, vf), msg)
      [] msg.op = IXGBE_VF_SET_VLAN ->
             KeepMsg(ixgbe_set_vf_vlan_msg(a, msg, vf), msg)
      [] msg.op = IXGBE_VF_SET_LPE ->
             KeepMsg(ixgbe_set_vf_lpe(a, msg.w1, vf), msg)
      [] msg.op = IXGBE_VF_SET_MACVLAN ->
             KeepMsg(ixgbe_set_vf_macvlan_msg(a, msg, vf), msg)
      [] msg.op = IXGBE_VF_API_NEGOTIATE ->
             KeepMsg(ixgbe_negotiate_vf_api(a, msg, vf), msg)
      [] msg.op = IXGBE_VF_GET_QUEUES -> ixgbe_get_vf_queues(a, msg, vf)
      [] msg.op = IXGBE_VF_GET_RETA -> ixgbe_get_vf_reta(a, msg, vf)
      [] msg.op = IXGBE_VF_GET_RSS_KEY -> ixgbe_get_vf_rss_key(a, msg, vf)
      [] msg.op = IXGBE_VF_UPDATE_XCAST_MODE ->
             ixgbe_update_vf_xcast_mode(a, msg, vf)
      [] msg.op = IXGBE_VF_GET_LINK_STATE -> ixgbe_get_vf_link_state(a, msg, vf)
      [] OTHER -> RetMsg(a, IXGBE_ERR_MBX, msg)

\* a response that is tagged SUCCESS whatever the handler returned
rcv_msg_reply_success(r, vf) ==
    Ret(ixgbe_write_mbx(r.a, [r.msg EXCEPT !.tags = @ \cup {"SUCCESS", "CTS"}],
                        IXGBE_VFMAILBOX_SIZE, vf),
        r.ret)

\* the response to a dispatched message: msgbuf as the handler left it, tagged
\* with the outcome and CTS
rcv_msg_reply(r, vf) ==
    Ret(ixgbe_write_mbx(r.a,
                        [r.msg EXCEPT !.tags =
                             @ \cup {IF r.ret # 0 THEN "FAILURE" ELSE "SUCCESS",
                                     "CTS"}],
                        IXGBE_VFMAILBOX_SIZE, vf),
        r.ret)


\* ixgbe_rcv_msg_from_vf without the clear_to_send test: every message reaches
\* its handler
rcv_msg_from_vf_ungated(a, vf, rd) ==
    IF rd.err # 0 THEN Ret(a, rd.err)
    ELSE IF rd.msg.tags \cap {"SUCCESS", "FAILURE"} # {} THEN Ret(a, 0)
    ELSE IF rd.msg.op = IXGBE_VF_RESET /\ rd.msg.info = 0 /\ rd.msg.tags = {}
    THEN ixgbe_vf_reset_msg(a, vf)
    ELSE IF rd.msg.op = IXGBE_VF_SET_LPE
            /\ rd.msg.w1 > IXGBE_MAX_JUMBO_FRAME_SIZE
    THEN Ret(a, -EINVAL)
    ELSE rcv_msg_reply(Dispatch(a, rd.msg, vf), vf)

\* ixgbe_rcv_msg_from_vf without the test for a message already processed:
\* the outcome tags are not looked at
rcv_msg_from_vf_tagged(a, vf, rd) ==
    IF rd.err # 0 THEN Ret(a, rd.err)
    ELSE IF rd.msg.op = IXGBE_VF_RESET /\ rd.msg.info = 0
    THEN ixgbe_vf_reset_msg(a, vf)
    ELSE IF ~a.vfinfo[vf].clear_to_send
    THEN Ret(ixgbe_write_mbx(a, [rd.msg EXCEPT !.tags = @ \cup {"FAILURE"}],
                             1, vf), 0)
    ELSE rcv_msg_reply(Dispatch(a, rd.msg, vf), vf)

\* rd is what ixgbe_read_mbx returned: [err |-> its return value, msg |-> msgbuf]
ixgbe_rcv_msg_from_vf(a, vf, rd) ==
    IF rd.err # 0 THEN Ret(a, rd.err)
    \* a message already processed
    ELSE IF rd.msg.tags \cap {"SUCCESS", "FAILURE"} # {} THEN Ret(a, 0)
    ELSE IF rd.msg.op = IXGBE_VF_RESET /\ rd.msg.info = 0 /\ rd.msg.tags = {}
    THEN ixgbe_vf_reset_msg(a, vf)
    ELSE IF ~a.vfinfo[vf].clear_to_send
    THEN Ret(ixgbe_write_mbx(a, [rd.msg EXCEPT !.tags = @ \cup {"FAILURE"}],
                             1, vf), 0)
    ELSE IF rd.msg.op = IXGBE_VF_SET_LPE
            /\ rd.msg.w1 > IXGBE_MAX_JUMBO_FRAME_SIZE
    THEN Ret(a, -EINVAL)
    ELSE rcv_msg_reply(Dispatch(a, rd.msg, vf), vf)

ixgbe_rcv_ack_from_vf(a, vf) ==
    IF ~a.vfinfo[vf].clear_to_send
    THEN ixgbe_write_mbx(a, Msg(0, 0, {"FAILURE"}, ZeroMac, 0, NoHashes), 1, vf)
    ELSE a


(***************************************************************************)
(* ixgbe_sriov.c: the control task                                         *)
(***************************************************************************)
\* the sequence of the elements of a finite set of integers, ascending
RECURSIVE Ascending(_)
Ascending(S) ==
    IF S = {} THEN <<>>
    ELSE LET m == CHOOSE x \in S : \A y \in S : x <= y
         IN  <<m>> \o Ascending(S \ {m})

\* adapter->vfinfo[vf].clear_to_send = 0 for a vf the table has no record of:
\* the store lands behind the allocation, in memory the driver does not use
\* or in the allocation that follows, where it clears a byte of mv_list
store_behind_vfinfo(a) ==
    IF a.env.behind_vfinfo = "mv_list" /\ a.mv_list # NULL /\ 0 \in DOMAIN a.mv_list
    THEN [a EXCEPT !.mv_list[0].free = FALSE]
    ELSE a

\* the indices of adapter->vfinfo that ixgbe_check_mdd_event stores to
mdd_vfinfo_indices(a, vf_bitmap) ==
    IF a.env.mac_type < ixgbe_mac_X550 THEN {} ELSE vf_bitmap

\* mdd_restart_vf leaving clear_to_send as it was
mdd_restart_vf_keep_cts(a, vf) ==
    ixgbe_write_mbx(restore_mdd_vf(a, vf),
                    Msg(IXGBE_PF_CONTROL_MSG, 0, {"CTS"}, ZeroMac, 0, NoHashes),
                    1, vf)

\* one flagged VF of ixgbe_check_mdd_event (restore_mdd_vf is present
\* whenever mdd_event is)
mdd_restart_vf(a, vf) ==
    ixgbe_write_mbx(IF vf \in DOMAIN a.vfinfo
                    THEN SetVf(restore_mdd_vf(a, vf), vf, "clear_to_send", FALSE)
                    ELSE store_behind_vfinfo(restore_mdd_vf(a, vf)),
                    Msg(IXGBE_PF_CONTROL_MSG, 0, {"CTS"}, ZeroMac, 0, NoHashes),
                    1, vf)

RECURSIVE mdd_restart_vfs(_, _)
mdd_restart_vfs(a, vfs) ==
    IF vfs = <<>> THEN a
    ELSE mdd_restart_vfs(mdd_restart_vf(a, Head(vfs)), Tail(vfs))

\* vf_bitmap is what hw->mac.ops.mdd_event reports; the op exists on X550 only
ixgbe_check_mdd_event(a, vf_bitmap) ==
    IF a.env.mac_type < ixgbe_mac_X550 THEN Ret(a, FALSE)
    ELSE Ret(mdd_restart_vfs(mdd_event(a, vf_bitmap), Ascending(vf_bitmap)),
             vf_bitmap # {})

\* what the mailbox of one VF holds when the task looks at it
NoEvent == [rst |-> FALSE, msg |-> FALSE, rd |-> <<>>, ack |-> FALSE]

\* ixgbe_msg_task: process any messages, process any acks
msg_task_msg(a, vf, ev) ==
    IF ev.msg THEN ixgbe_rcv_msg_from_vf(a, vf, ev.rd).a ELSE a

msg_task_ack(a, vf, ev) ==
    IF ev.ack THEN ixgbe_rcv_ack_from_vf(a, vf) ELSE a

\* the body of the loop of ixgbe_msg_task for one VF
\* the body of the loop with the message indicator looked at first
msg_task_vf_msg_first(a, vf, ev) ==
    msg_task_ack(
        IF ev.rst THEN ixgbe_vf_reset_event(msg_task_msg(a, vf, ev), vf)
        ELSE msg_task_msg(a, vf, ev),
        vf, ev)

msg_task_vf(a, vf, ev) ==
    msg_task_ack(
        msg_task_msg(IF ev.rst THEN ixgbe_vf_reset_event(a, vf) ELSE a, vf, ev),
        vf, ev)

RECURSIVE msg_task_loop(_, _, _)
msg_task_loop(a, vf, events) ==
    IF vf >= a.num_vfs THEN a
    ELSE msg_task_loop(msg_task_vf(a, vf, events[vf]), vf + 1, events)

\* events: VF index -> what its mailbox holds
ixgbe_msg_task(a, vf_bitmap, events) ==
    IF a.vfinfo = NULL THEN a
    ELSE msg_task_loop(IF "MDD_ENABLED" \in a.flags
                       THEN ixgbe_check_mdd_event(a, vf_bitmap).a ELSE a,
                       0, events)

ixgbe_ping_vf(a, vf) ==
    ixgbe_write_mbx(a, Msg(IXGBE_PF_CONTROL_MSG, 0,
                           IF a.vfinfo[vf].clear_to_send THEN {"CTS"} ELSE {},
                           ZeroMac, 0, NoHashes), 1, vf)

\* the loop of ixgbe_ping_all_vfs over the VFs from i on
RECURSIVE ping_all_vfs_from(_, _)
ping_all_vfs_from(a, i) ==
    IF i >= a.num_vfs THEN a
    ELSE ping_all_vfs_from(
             ixgbe_write_mbx(a, Msg(IXGBE_PF_CONTROL_MSG, 0,
                                    IF a.vfinfo[i].clear_to_send
                                    THEN {"CTS"} ELSE {},
                                    ZeroMac, 0, NoHashes), 1, i),
             i + 1)

ixgbe_ping_all_vfs(a) == ping_all_vfs_from(a, 0)

(***************************************************************************)
(* ixgbe_sriov.c: administrative setters                                   *)
(***************************************************************************)
ixgbe_ndo_set_vf_trust(a, vf, setting) ==
    IF vf < 0 \/ vf >= a.num_vfs THEN Ret(a, -EINVAL)
    ELSE IF a.vfinfo[vf].trusted = setting THEN Ret(a, 0)
    ELSE Ret(ixgbe_ping_vf(SetVf(SetVf(a, vf, "trusted", setting),
                                 vf, "clear_to_send", FALSE), vf), 0)

\* ixgbe_ndo_set_vf_mac setting pf_set_mac whether or not the address was set
ndo_set_vf_mac_pin_always(a, vf, mac) ==
    IF vf < 0 \/ vf >= a.num_vfs THEN Ret(a, -EINVAL)
    ELSE IF is_valid_ether_addr(mac)
    THEN Only({ Ret(SetVf(r.a, vf, "pf_set_mac", TRUE), r.ret)
                : r \in {ixgbe_set_vf_mac(a, vf, mac)} })
    ELSE Ret(a, -EINVAL)

ixgbe_ndo_set_vf_mac(a, vf, mac) ==
    IF vf < 0 \/ vf >= a.num_vfs THEN Ret(a, -EINVAL)
    ELSE IF is_valid_ether_addr(mac)
    THEN Only({ IF r.ret >= 0 THEN Ret(SetVf(r.a, vf, "pf_set_mac", TRUE), r.ret)
                ELSE r
                : r \in {ixgbe_set_vf_mac(a, vf, mac)} })
    ELSE IF is_zero_ether_addr(mac)
    THEN IF is_zero_ether_addr(a.vfinfo[vf].vf_mac_addresses) THEN Ret(a, 0)
         ELSE Only({ IF r.ret >= 0
                     THEN Ret(SetVf(SetVf(r.a, vf, "pf_set_mac", FALSE),
                                    vf, "vf_mac_addresses", mac), r.ret)
                     ELSE r
                     : r \in {ixgbe_del_mac_filter(
                                  a, a.vfinfo[vf].vf_mac_addresses, vf)} })
    ELSE Ret(a, -EINVAL)

\* hide VLAN is an X550 feature
port_vlan_qde(a, vf, qde) ==
    IF a.env.mac_type >= ixgbe_mac_X550 THEN ixgbe_write_qde(a, vf, qde) ELSE a

\* ixgbe_enable_port_vlan once the VLAN filter is in place
enable_port_vlan_tag(a, vf, vlan, qos) ==
    SetVf(SetVf(port_vlan_qde(
                    ixgbe_set_vmolr(ixgbe_set_vmvir(a, vlan, qos, vf), vf, FALSE),
                    vf, {"ENABLE", "HIDE_VLAN"}),
                vf, "pf_vlan", vlan),
          vf, "pf_qos", qos)

ixgbe_enable_port_vlan(a, vf, vlan, qos) ==
    Only({ IF r.ret # 0 THEN r
           ELSE Ret(enable_port_vlan_tag(
                        ixgbe_set_vf_vlan(r.a, FALSE, 0, vf).a, vf, vlan, qos),
                    0)
           : r \in {ixgbe_set_vf_vlan(a, TRUE, vlan, vf)} })

\* ixgbe_disable_port_vlan once the VLAN filter is gone
disable_port_vlan_tag(a, vf) ==
    SetVf(SetVf(port_vlan_qde(
                    ixgbe_set_vmolr(ixgbe_clear_vmvir(a, vf), vf, TRUE),
                    vf, {"ENABLE"}),
                vf, "pf_vlan", 0),
          vf, "pf_qos", 0)

ixgbe_disable_port_vlan(a, vf) ==
    Only({ Ret(disable_port_vlan_tag(ixgbe_set_vf_vlan(r.a, TRUE, 0, vf).a, vf),
               r.ret)
           : r \in {ixgbe_set_vf_vlan(a, FALSE, a.vfinfo[vf].pf_vlan, vf)} })

ixgbe_ndo_set_vf_vlan(a, vf, vlan, qos) ==
    IF vf < 0 \/ vf >= a.num_vfs \/ vlan > 4094 \/ qos > 7 THEN Ret(a, -EINVAL)
    ELSE IF vlan # 0 \/ qos # 0
    THEN Only({ IF d.ret # 0 THEN d
                ELSE ixgbe_enable_port_vlan(d.a, vf, vlan, qos)
                : d \in {IF a.vfinfo[vf].pf_vlan # 0
                         THEN ixgbe_disable_port_vlan(a, vf) ELSE Ret(a, 0)} })
    ELSE ixgbe_disable_port_vlan(a, vf)



ixgbe_link_mbps(a) ==
    CASE a.env.link_speed = "IXGBE_LINK_SPEED_100_FULL" -> 100
      [] a.env.link_speed = "IXGBE_LINK_SPEED_1GB_FULL" -> 1000
      [] a.env.link_speed = "IXGBE_LINK_SPEED_10GB_FULL" -> 10000
      [] OTHER -> 0

\* bcnrc_val of ixgbe_set_vf_rate_limit, a u32: the shift drops the bits
\* above bit 31, and the two masks are the low 24 bits, so that and-ing with
\* them is the remainder by the next power of two; rs_ena is
\* IXGBE_RTTBCNRC_RS_ENA
rate_limit_bcnrc(link_speed, tx_rate) ==
    IF tx_rate = 0 THEN [rs_ena |-> FALSE, rf |-> 0]
    ELSE [rs_ena |-> TRUE,
          rf |-> (((link_speed % 2^(32 - IXGBE_RTTBCNRC_RF_INT_SHIFT))
                   * 2^IXGBE_RTTBCNRC_RF_INT_SHIFT) \div tx_rate)
                 % (IXGBE_RTTBCNRC_RF_INT_MASK + IXGBE_RTTBCNRC_RF_DEC_MASK + 1)]

\* the Tx queues of the pool of a VF
vf_tx_queues(a, vf) ==
    {vf * a.env.q_per_pool + queue : queue \in 0..(a.env.q_per_pool - 1)}

ixgbe_set_vf_rate_limit(a, vf) ==
    [a EXCEPT
      !.regs.bcnrm = CASE a.env.mac_type = ixgbe_mac_82599EB -> 4
                       [] a.env.mac_type = ixgbe_mac_X540 -> 20
                       [] OTHER -> @,
      !.regs.bcnrc = [q \in DOMAIN @ \cup vf_tx_queues(a, vf) |->
                        IF q \in vf_tx_queues(a, vf)
                        THEN rate_limit_bcnrc(a.vf_rate_link_speed,
                                              a.vfinfo[vf].tx_rate)
                        ELSE @[q]]]

\* tx_rate is a u16
ixgbe_ndo_set_vf_bw(a, vf, max_tx_rate) ==
    IF vf < 0 \/ vf >= a.num_vfs THEN Ret(a, -EINVAL)
    ELSE IF ~a.env.link_up THEN Ret(a, -EINVAL)
    ELSE IF ixgbe_link_mbps(a) # 10000 THEN Ret(a, -EINVAL)
    ELSE IF max_tx_rate # 0
            /\ (max_tx_rate <= 10 \/ max_tx_rate > ixgbe_link_mbps(a))
    THEN Ret(a, -EINVAL)
    ELSE Ret(ixgbe_set_vf_rate_limit(
                 [SetVf(a, vf, "tx_rate", max_tx_rate % 65536)
                    EXCEPT !.vf_rate_link_speed = ixgbe_link_mbps(a)], vf), 0)

\* set_ethertype_anti_spoofing is an operation of X550 and later
ixgbe_ndo_set_vf_spoofchk(a, vf, setting) ==
    IF vf < 0 \/ vf >= a.num_vfs THEN Ret(a, -EINVAL)
    ELSE Ret(set_ethertype_anti_spoofing(
                 set_vlan_anti_spoofing(
                     set_mac_anti_spoofing(
                         SetVf(a, vf, "spoofchk_enabled", setting), setting, vf),
                     setting, vf),
                 setting, vf), 0)

link_state_enable(a, state, old) ==
    CASE state = IFLA_VF_LINK_STATE_AUTO -> ~a.env.down
      [] state = IFLA_VF_LINK_STATE_ENABLE -> TRUE
      [] state = IFLA_VF_LINK_STATE_DISABLE -> FALSE
      [] OTHER -> old

\* ixgbe_set_vf_link_state without the restart of the VF
set_vf_link_state_no_restart(a, vf, state) ==
    ixgbe_set_vf_rx_tx(
        SetVf(SetVf(a, vf, "link_state", state),
              vf, "link_enable",
              link_state_enable(a, state, a.vfinfo[vf].link_enable)),
        vf)

ixgbe_set_vf_link_state(a, vf, state) ==
    ixgbe_ping_vf(
        SetVf(ixgbe_set_vf_rx_tx(
                  SetVf(SetVf(a, vf, "link_state", state),
                        vf, "link_enable",
                        link_state_enable(a, state, a.vfinfo[vf].link_enable)),
                  vf),
              vf, "clear_to_send", FALSE),
        vf)

\* the loop of ixgbe_set_all_vfs over the VFs from i on
RECURSIVE set_all_vfs_from(_, _)
set_all_vfs_from(a, i) ==
    IF i >= a.num_vfs THEN a
    ELSE set_all_vfs_from(
             ixgbe_set_vf_link_state(a, i, a.vfinfo[i].link_state), i + 1)

ixgbe_set_all_vfs(a) == set_all_vfs_from(a, 0)

ixgbe_ndo_set_vf_link_state(a, vf, state) ==
    IF vf < 0 \/ vf >= a.num_vfs THEN Ret(a, -EINVAL)
    ELSE CASE state = IFLA_VF_LINK_STATE_ENABLE -> Ret(a, 0)
           [] state = IFLA_VF_LINK_STATE_DISABLE ->
                Ret(ixgbe_set_vf_link_state(a, vf, state), 0)
           [] state = IFLA_VF_LINK_STATE_AUTO ->
                Ret(ixgbe_set_vf_link_state(a, vf, state), 0)
           [] OTHER -> Ret(a, -EINVAL)

ixgbe_ndo_set_vf_rss_query_en(a, vf, setting) ==
    IF a.env.mac_type < ixgbe_mac_82599EB \/ a.env.mac_type >= ixgbe_mac_X550
    THEN Ret(a, -EOPNOTSUPP)
    ELSE IF vf < 0 \/ vf >= a.num_vfs THEN Ret(a, -EINVAL)
    ELSE Ret(SetVf(a, vf, "rss_query_enabled", setting), 0)

\* ivi is what the call stores through its third argument
ixgbe_ndo_get_vf_config(a, vf) ==
    IF vf < 0 \/ vf >= a.num_vfs THEN RetMsg(a, -EINVAL, <<>>)
    ELSE RetMsg(a, 0,
                [vf |-> vf, mac |-> a.vfinfo[vf].vf_mac_addresses,
                 max_tx_rate |-> a.vfinfo[vf].tx_rate, min_tx_rate |-> 0,
                 vlan |-> a.vfinfo[vf].pf_vlan, qos |-> a.vfinfo[vf].pf_qos,
                 linkstate |-> a.vfinfo[vf].link_state,
                 spoofchk |-> a.vfinfo[vf].spoofchk_enabled,
                 rss_query_en |-> a.vfinfo[vf].rss_query_enabled,
                 trusted |-> a.vfinfo[vf].trusted])


\* the loop of ixgbe_check_vf_rate_limit over the VFs from i on
RECURSIVE check_vf_rate_limit_from(_, _)
check_vf_rate_limit_from(a, i) ==
    IF i >= a.num_vfs THEN a
    ELSE check_vf_rate_limit_from(
             ixgbe_set_vf_rate_limit(
                 IF a.vf_rate_link_speed = 0 THEN SetVf(a, i, "tx_rate", 0)
                 ELSE a, i),
             i + 1)

ixgbe_check_vf_rate_limit(a) ==
    IF a.vf_rate_link_speed = 0 THEN a
    ELSE check_vf_rate_limit_from(
             IF ixgbe_link_mbps(a) # a.vf_rate_link_speed
             THEN [a EXCEPT !.vf_rate_link_speed = 0] ELSE a, 0)

(***************************************************************************)
(* ixgbe_sriov.c: enabling and disabling SR-IOV                            *)
(***************************************************************************)
\* a VF record as kcalloc returns it
ZeroVf ==
    [vf_mac_addresses |-> ZeroMac, pf_set_mac |-> FALSE, trusted |-> FALSE,
     pf_vlan |-> 0, pf_qos |-> 0, num_vf_mc_hashes |-> 0,
     vf_mc_hashes |-> [i \in 1..IXGBE_MAX_VF_MC_ENTRIES |-> 0],
     xcast_mode |-> 0, vf_api |-> 0, clear_to_send |-> FALSE,
     spoofchk_enabled |-> FALSE, rss_query_enabled |-> FALSE,
     link_enable |-> FALSE, link_state |-> 0, tx_rate |-> 0, vfdev |-> FALSE]

\* the loop at the end of __ixgbe_enable_sriov
VfDefaults(v) ==
    [v EXCEPT !.spoofchk_enabled = TRUE, !.link_enable = TRUE,
              !.rss_query_enabled = FALSE, !.trusted = FALSE,
              !.xcast_mode = IXGBEVF_XCAST_MODE_NONE]

\* io: the outcome of the allocations and of the PCI core,
\* [vfinfo_ok, mv_ok |-> BOOLEAN, pci_err |-> 0 or an errno]
__ixgbe_enable_sriov(a, n, io) ==
    LET a1 == [a EXCEPT !.flags = @ \cup {"SRIOV_ENABLED", "VMDQ_ENABLED"},
                        !.vmdq_limit = IF @ = 0 THEN 1 ELSE @]
        a2 == [a1 EXCEPT !.vfinfo = [i \in 0..(n - 1) |-> ZeroVf],
                         !.num_vfs = n]
        a3 == ixgbe_alloc_vf_macvlans(a2, n, io.mv_ok)
        tcs == IF a.env.mac_type = ixgbe_mac_82599EB /\ n < 16
               THEN IXGBE_DCB_MAX_TRAFFIC_CLASS
               ELSE IF n < 32 THEN 4 ELSE 1
        a4 == [a3 EXCEPT !.vmdq_offset = n,
                         !.flags = @ \cup {"SRIOV_L2SWITCH_ENABLE",
                                           "SRIOV_REPLICATION_ENABLE"},
                         !.dcb_tcs = tcs,
                         !.flags2 = @ \ {"RSC_CAPABLE", "RSC_ENABLED"},
                         !.vfinfo = [i \in DOMAIN @ |-> VfDefaults(@[i])]]
    IN  IF a.env.xdp_prog THEN Ret(a, -EINVAL)
        \* adapter->vfinfo = kcalloc(...) stores NULL when it fails
        ELSE IF ~io.vfinfo_ok THEN Ret([a1 EXCEPT !.vfinfo = NULL], -ENOMEM)
        ELSE Ret(a4, 0)

\* every VF the PCI core lists gets its device reference
ixgbe_get_vfs(a) ==
    [a EXCEPT !.vfinfo = [i \in DOMAIN @ |->
                            IF i < a.pci.num_vf /\ i < a.num_vfs
                            THEN [@[i] EXCEPT !.vfdev = TRUE] ELSE @[i]]]

ixgbe_disable_sriov(a) ==
    LET a1 == [a EXCEPT !.num_vfs = 0, !.vfinfo = NULL, !.mv_list = NULL]
        a2 == IF a.env.mac_type >= ixgbe_mac_X550 /\ "MDD_ENABLED" \notin a.flags
              THEN [a1 EXCEPT !.regs.mdd_disabled = TRUE] ELSE a1
        a3 == [a2 EXCEPT !.pci.num_vf = 0,
                         !.flags = (IF a.vmdq_limit = 1
                                    THEN @ \ {"VMDQ_ENABLED"} ELSE @)
                                   \ {"SRIOV_ENABLED"},
                         !.vmdq_offset = 0]
    IN  IF "SRIOV_ENABLED" \notin a.flags THEN Ret(a1, 0)
        ELSE IF a.pci.vfs_assigned THEN Ret(a2, -EPERM)
        ELSE Ret(a3, 0)


\* ixgbe_enable_sriov with n VFs to create (the module parameter path) or
\* found (pre-existing VFs); the function is void, and the value returned
\* here is the error it logs before it bails out, 0 when there is none
enable_sriov_vfs(a, n, io) ==
    Only({ IF e.ret = 0 THEN Ret(ixgbe_get_vfs(e.a), 0)
           ELSE Ret(ixgbe_disable_sriov(e.a).a, e.ret)
           : e \in {__ixgbe_enable_sriov(a, n, io)} })

ixgbe_enable_sriov(a, max_vfs, io) ==
    IF a.pci.num_vf = 0 /\ max_vfs = 0 THEN Ret(a, 0)
    ELSE IF a.pci.num_vf # 0 THEN enable_sriov_vfs(a, a.pci.num_vf, io)
    ELSE IF io.pci_err # 0 THEN Ret(a, io.pci_err)
    ELSE enable_sriov_vfs(
             [a EXCEPT !.pci.num_vf = Min(max_vfs, IXGBE_MAX_VFS_DRV_LIMIT)],
             Min(max_vfs, IXGBE_MAX_VFS_DRV_LIMIT), io)

ixgbe_vf_configuration(a, vfn, enable) ==
    IF enable THEN SetVf(a, vfn, "vf_mac_addresses", ZeroMac) ELSE a

RECURSIVE vf_configuration_all(_, _)
vf_configuration_all(a, n) ==
    IF n = 0 THEN a
    ELSE ixgbe_vf_configuration(vf_configuration_all(a, n - 1), n - 1, TRUE)

\* the traffic-class dependent limit on the number of VFs
MaxVfsForTc(num_tc) ==
    IF num_tc > 4 THEN IXGBE_MAX_VFS_8TC
    ELSE IF num_tc > 1 /\ num_tc <= 4 THEN IXGBE_MAX_VFS_4TC
    ELSE IXGBE_MAX_VFS_1TC


\* ixgbe_sriov_reinit(adapter) resets the device and configures it again from
\* the driver state (ixgbe_main.c): the MAC table holds the PF's address only,
\* the VLAN filters hold the PF's VLANs, every pool's registers are at their
\* reset values and anti-spoofing follows spoofchk_enabled
ResetRegs(a) ==
    LET pools == 0..(a.env.num_pools - 1)
    IN  [vfre |-> {}, vfte |-> {}, vmolr |-> [p \in pools |-> {}],
         vmvir |-> [p \in pools |-> [vlana |-> FALSE, vid |-> 0, qos |-> 0]],
         maxfrs |-> a.env.mtu + ETH_HLEN + ETH_FCS_LEN,
         mac_spoof |-> {v \in 0..(a.num_vfs - 1) : a.vfinfo[v].spoofchk_enabled},
         vlan_spoof |-> {v \in 0..(a.num_vfs - 1) : a.vfinfo[v].spoofchk_enabled},
         ethertype_spoof |-> {v \in 0..(a.num_vfs - 1) :
                                a.env.mac_type >= ixgbe_mac_X550
                                /\ a.vfinfo[v].spoofchk_enabled},
         qde |-> [p \in pools |-> {}], vmecm |-> {}, mta |-> {},
         bcnrc |-> <<>>, bcnrm |-> 0,
         mdd_disabled |-> a.regs.mdd_disabled, mdd_blocked |-> {}]

ixgbe_sriov_reinit(a) ==
    LET promisc == "VLAN_PROMISC" \in a.flags2
        pf == {VMDQ_P0(a)}
        \* the PF's VLANs other than 0 take the entries from the last one down
        vids == Ascending(a.env.active_vlans \ {0})
    IN  [a EXCEPT
          !.mac_table = [pf |-> 1, vf |-> EmptyBag],
          !.vlvf = [i \in VlvfIdx |->
                      IF i = 0 THEN [vien |-> TRUE, vid |-> 0]
                      ELSE IF IXGBE_VLVF_ENTRIES - i <= Len(vids)
                      THEN [vien |-> TRUE, vid |-> vids[IXGBE_VLVF_ENTRIES - i]]
                      ELSE VlvfEmpty],
          !.vlvfb = [i \in VlvfIdx |->
                       IF i = 0 \/ promisc \/ IXGBE_VLVF_ENTRIES - i <= Len(vids)
                       THEN pf ELSE {}],
          !.vfta = IF promisc THEN 0..MaxVid ELSE a.env.active_vlans \cup {0},
          !.regs = ResetRegs(a)]

\* ixgbe_pci_sriov_enable after __ixgbe_enable_sriov and the reset: the PCI
\* core creates the VFs
pci_sriov_enable_vfs(a, n, io) ==
    IF io.pci_err # 0 THEN Ret(a, io.pci_err)
    ELSE Ret(ixgbe_get_vfs([a EXCEPT !.pci.num_vf = n]), n)


\* pci_sriov_enable_new with the limit of one traffic class whatever their
\* number
pci_sriov_enable_one_limit(a, n, io) ==
    IF n > IXGBE_MAX_VFS_1TC THEN Ret(a, -EPERM)
    ELSE Only({ IF e.ret # 0 THEN e
                ELSE pci_sriov_enable_vfs(
                         ixgbe_sriov_reinit(
                             vf_configuration_all(e.a, e.a.num_vfs)),
                         n, io)
                : e \in {__ixgbe_enable_sriov(a, n, io)} })

\* ixgbe_pci_sriov_enable from the traffic-class limit on
pci_sriov_enable_new(a, n, io) ==
    IF n > MaxVfsForTc(a.env.num_tc) THEN Ret(a, -EPERM)
    ELSE Only({ IF e.ret # 0 THEN e
                ELSE pci_sriov_enable_vfs(
                         ixgbe_sriov_reinit(
                             vf_configuration_all(e.a, e.a.num_vfs)),
                         n, io)
                : e \in {__ixgbe_enable_sriov(a, n, io)} })

ixgbe_pci_sriov_enable(a, n, io) ==
    IF "SRIOV_CAPABLE" \notin a.flags THEN Ret(a, -EOPNOTSUPP)
    ELSE IF a.num_vfs = n THEN Ret(a, -EINVAL)
    \* pre_existing_vfs == num_vfs
    ELSE IF a.pci.num_vf # 0 /\ a.pci.num_vf = n THEN Ret(a, n)
    ELSE IF a.pci.num_vf # 0
    THEN Only({ IF d.ret # 0 THEN d ELSE pci_sriov_enable_new(d.a, n, io)
                : d \in {ixgbe_disable_sriov(a)} })
    ELSE pci_sriov_enable_new(a, n, io)

ixgbe_pci_sriov_disable(a) ==
    IF a.num_vfs = 0 /\ a.pci.num_vf = 0 THEN Ret(a, -EINVAL)
    ELSE Only({ IF r.ret = 0 /\ r.a.flags # a.flags
                THEN Ret(ixgbe_sriov_reinit(r.a), 0)
                ELSE r
                : r \in {ixgbe_disable_sriov(a)} })

ixgbe_pci_sriov_configure(a, n, io) ==
    IF n = 0 THEN ixgbe_pci_sriov_disable(a)
    ELSE ixgbe_pci_sriov_enable(a, n, io)

(***************************************************************************)
(* Initial states                                                          *)
(***************************************************************************)
\* every allocation and the PCI core succeed
IoOk == [vfinfo_ok |-> TRUE, mv_ok |-> TRUE, pci_err |-> 0]

\* the rest of the driver as the handlers see it
Env(mac_type, num_tc, mtu, active_vlans, rar, pools) ==
    [mac_type |-> mac_type, num_tc |-> num_tc, default_up |-> 0, mtu |-> mtu,
     fctrl_upe |-> FALSE, active_vlans |-> active_vlans, q_per_pool |-> 2,
     num_rar_entries |-> rar, num_pools |-> pools, xdp_prog |-> FALSE,
     link_up |-> TRUE, link_speed |-> "IXGBE_LINK_SPEED_10GB_FULL",
     down |-> FALSE, behind_vfinfo |-> "unrelated"]

\* the adapter after probe, SR-IOV disabled
Probed(e, fl, fl2) ==
    ixgbe_sriov_reinit(
        [num_vfs |-> 0, vfinfo |-> NULL, mv_list |-> NULL,
         flags |-> fl \cup {"SRIOV_CAPABLE"}, flags2 |-> fl2, dcb_tcs |-> 1,
         vmdq_offset |-> 0, vmdq_limit |-> 0, env |-> e,
         mac_table |-> [pf |-> 1, vf |-> EmptyBag],
         vlvf |-> [i \in VlvfIdx |-> VlvfEmpty],
         vlvfb |-> [i \in VlvfIdx |-> {}], vfta |-> {},
         regs |-> [mdd_disabled |-> FALSE, mdd_blocked |-> {}],
         pci |-> [num_vf |-> 0, vfs_assigned |-> FALSE],
         vf_rate_link_speed |-> 0, mbx |-> <<>>])


\* the adapter after the driver was removed and is probed again: ixgbe_remove
\* runs ixgbe_disable_sriov, and the VFs of the PCI device outlive the
\* adapter while they are assigned to guests
Reprobed(a) ==
    [Probed(a.env, {}, {}) EXCEPT !.pci = ixgbe_disable_sriov(a).a.pci]

\* the adapter after SR-IOV was enabled with NumVfs VFs
Enabled(e, fl, fl2) == ixgbe_pci_sriov_enable(Probed(e, fl, fl2), NumVfs, IoOk).a


(***************************************************************************)
(* Actions.  Each runs one entry point of the driver on the current state; *)
(* the step after it, Return, hands the mailbox writes to the VFs.         *)
(***************************************************************************)
Vfs == 0..(NumVfs - 1)

\* the VFs whose drivers and administrator act: the first and the last one
ActiveVfs == {0, NumVfs - 1}

Idle == [fn |-> "idle", vf |-> -1, arg |-> <<>>, ret |-> 0, pre |-> <<>>]

Call(fn, vf, arg, r) ==
    /\ last = Idle
    /\ Commit(r.a)
    /\ last' = [fn |-> fn, vf |-> vf, arg |-> arg, ret |-> r.ret, pre |-> Adapter]

Return ==
    /\ last # Idle
    /\ last' = Idle
    /\ mbx' = <<>>
    /\ UNCHANGED <<num_vfs, vfinfo, mv_list, flags, flags2, dcb_tcs, vmdq_offset,
                   vmdq_limit, env, mac_table, vlvf, vlvfb, vfta, regs, pci,
                   vf_rate_link_speed, rst_pending>>

MsgRead(m) == [rst |-> FALSE, msg |-> TRUE, rd |-> [err |-> 0, msg |-> m],
               ack |-> FALSE]
MsgReadError == [rst |-> FALSE, msg |-> TRUE,
                 rd |-> [err |-> IXGBE_ERR_MBX,
                         msg |-> Msg(0, 0, {}, ZeroMac, 0, NoHashes)],
                 ack |-> FALSE]
RstOnly == [NoEvent EXCEPT !.rst = TRUE]
AckOnly == [NoEvent EXCEPT !.ack = TRUE]

\* msgbuf[0] == IXGBE_VF_RESET
IsResetMsg(m) == m.op = IXGBE_VF_RESET /\ m.info = 0 /\ m.tags = {}
\* the event makes ixgbe_rcv_msg_from_vf run ixgbe_vf_reset_msg
IsResetRead(ev) == ev.msg /\ ev.rd.err = 0 /\ IsResetMsg(ev.rd.msg)

\* ixgbe_msg_task runs with the mailbox of one VF holding ev and no VF
\* reported by the malicious-driver detection
MsgTask(vf, ev) ==
    /\ Call("ixgbe_msg_task", vf, ev,
            Ret(ixgbe_msg_task(Adapter, {},
                               [v \in 0..(num_vfs - 1) |->
                                  IF v = vf THEN ev ELSE NoEvent]), 0))
    /\ rst_pending' = [rst_pending EXCEPT ![vf] =
                          IF vfinfo = NULL THEN @
                          ELSE IF IsResetRead(ev) THEN FALSE
                          ELSE IF ev.rst THEN TRUE ELSE @]

\* ixgbe_msg_task runs with no mailbox event and the detection reporting vf
MddTask(vf) ==
    /\ Call("ixgbe_check_mdd_event", vf, {vf},
            Ret(ixgbe_msg_task(Adapter, {vf},
                               [v \in 0..(num_vfs - 1) |-> NoEvent]), 0))
    /\ UNCHANGED rst_pending

NdoSetVfTrust(vf, setting) ==
    /\ Call("ixgbe_ndo_set_vf_trust", vf, setting,
            ixgbe_ndo_set_vf_trust(Adapter, vf, setting))
    /\ UNCHANGED rst_pending

NdoSetVfMac(vf, mac) ==
    /\ Call("ixgbe_ndo_set_vf_mac", vf, mac,
            ixgbe_ndo_set_vf_mac(Adapter, vf, mac))
    /\ UNCHANGED rst_pending

NdoSetVfVlan(vf, vlan, qos) ==
    /\ Call("ixgbe_ndo_set_vf_vlan", vf, <<vlan, qos>>,
            ixgbe_ndo_set_vf_vlan(Adapter, vf, vlan, qos))
    /\ UNCHANGED rst_pending


\* the PF's own unicast address list changes to count secondary addresses
PfUcList(count) ==
    /\ Call("ixgbe_write_uc_addr_list", -1, count,
            ixgbe_write_uc_addr_list(Adapter, count))
    /\ UNCHANGED rst_pending

InitFrom(a) ==
    /\ num_vfs = a.num_vfs
    /\ vfinfo = a.vfinfo
    /\ mv_list = a.mv_list
    /\ flags = a.flags
    /\ flags2 = a.flags2
    /\ dcb_tcs = a.dcb_tcs
    /\ vmdq_offset = a.vmdq_offset
    /\ vmdq_limit = a.vmdq_limit
    /\ env = a.env
    /\ mac_table = a.mac_table
    /\ vlvf = a.vlvf
    /\ vlvfb = a.vlvfb
    /\ vfta = a.vfta
    /\ regs = a.regs
    /\ pci = a.pci
    /\ vf_rate_link_speed = a.vf_rate_link_speed
    /\ mbx = <<>>
    /\ rst_pending = [v \in Vfs |-> FALSE]
    /\ last = Idle

(***************************************************************************)
(* Spec: the mailbox protocol engine.  Two VFs, every opcode, the reset    *)
(* handshake, trust changes and malicious-driver events.                   *)
(***************************************************************************)
Hdr(op, info, tags) == Msg(op, info, tags, ZeroMac, 0, NoHashes)
Word(op, w1) == Msg(op, 0, {}, ZeroMac, w1, NoHashes)

ResetMsg == Hdr(IXGBE_VF_RESET, 0, {})

MailboxMsgs ==
    { ResetMsg,
      \* opcode VF_RESET with a nonzero info field, and a message carrying CTS
      Hdr(IXGBE_VF_RESET, 1, {}),
      Hdr(IXGBE_VF_GET_QUEUES, 0, {"CTS"}),
      \* a message the PF already answered
      Hdr(IXGBE_VF_GET_QUEUES, 0, {"SUCCESS", "CTS"}),
      Msg(IXGBE_VF_SET_MAC_ADDR, 0, {}, MacA, 0, NoHashes),
      Msg(IXGBE_VF_SET_MAC_ADDR, 0, {}, McastMac, 0, NoHashes),
      Hdr(IXGBE_VF_SET_MULTICAST, 0, {}),
      Hdr(IXGBE_VF_SET_VLAN, 1, {}),
      Word(IXGBE_VF_SET_LPE, ETH_FRAME_LEN + ETH_FCS_LEN),
      Word(IXGBE_VF_SET_LPE, IXGBE_MAX_JUMBO_FRAME_SIZE + 1),
      Hdr(IXGBE_VF_SET_MACVLAN, 0, {}),
      Msg(IXGBE_VF_SET_MACVLAN, 1, {}, McastMac, 0, NoHashes),
      Word(IXGBE_VF_API_NEGOTIATE, ixgbe_mbox_api_13),
      Word(IXGBE_VF_API_NEGOTIATE, 99),
      Hdr(IXGBE_VF_GET_QUEUES, 0, {}),
      Hdr(IXGBE_VF_GET_RETA, 0, {}),
      Hdr(IXGBE_VF_GET_RSS_KEY, 0, {}),
      Word(IXGBE_VF_UPDATE_XCAST_MODE, IXGBEVF_XCAST_MODE_NONE),
      Hdr(IXGBE_VF_GET_LINK_STATE, 0, {}),
      \* an opcode the PF does not know
      Hdr(7, 0, {}) }

MailboxEvents ==
    {MsgRead(m) : m \in MailboxMsgs}
      \cup {MsgReadError, RstOnly, AckOnly,
            [MsgRead(ResetMsg) EXCEPT !.rst = TRUE]}

Init ==
    \E mt \in {ixgbe_mac_82599EB, ixgbe_mac_X550} :
        InitFrom(Enabled(Env(mt, 0, 1500, {0}, NumRarEntries, NumVfs + 1),
                         IF mt = ixgbe_mac_X550 THEN {"MDD_ENABLED"} ELSE {},
                         {}))

Next ==
    \/ \E vf \in ActiveVfs, ev \in MailboxEvents : MsgTask(vf, ev)
    \/ \E vf \in ActiveVfs : MddTask(vf)
    \/ \E vf \in ActiveVfs, setting \in BOOLEAN : NdoSetVfTrust(vf, setting)
    \/ Return

Spec == Init /\ [][Next]_vars



(***************************************************************************)
(* SpecMac: MAC address ownership.  The reset handshake, SET_MAC_ADDR, the *)
(* administrative MAC and trust setters, and the PF taking and releasing   *)
(* MAC filter entries for itself.                                          *)
(***************************************************************************)
MacEvents ==
    { MsgRead(ResetMsg), RstOnly,
      MsgRead(Msg(IXGBE_VF_SET_MAC_ADDR, 0, {}, MacB, 0, NoHashes)),
      MsgRead(Msg(IXGBE_VF_SET_MAC_ADDR, 0, {}, McastMac, 0, NoHashes)) }

InitMac ==
    InitFrom(Enabled(Env(ixgbe_mac_82599EB, 0, 1500, {0}, NumRarEntries,
                         NumVfs + 1), {}, {}))

NextMac ==
    \/ \E vf \in ActiveVfs, ev \in MacEvents : MsgTask(vf, ev)
    \/ \E vf \in ActiveVfs, mac \in {MacA, ZeroMac} : NdoSetVfMac(vf, mac)
    \/ \E vf \in ActiveVfs, setting \in BOOLEAN : NdoSetVfTrust(vf, setting)
    \/ \E count \in {0, ixgbe_available_rars(Adapter) + mac_table.pf - 1} :
           PfUcList(count)
    \/ Return

SpecMac == InitMac /\ [][NextMac]_vars


(***************************************************************************)
(* SpecVlan: VLAN isolation.  SET_VLAN requests, the administrative port   *)
(* VLAN and VF resets, with the PF monitoring VLANs of its own and in or   *)
(* out of VLAN-promiscuous mode.                                           *)
(***************************************************************************)
Vids == 0..MaxVid

SetVlanMsg(add, vid) == Msg(IXGBE_VF_SET_VLAN, add, {}, ZeroMac, vid, NoHashes)

VlanEvents ==
    {MsgRead(ResetMsg)}
      \cup {MsgRead(SetVlanMsg(add, vid)) : add \in {0, 1}, vid \in Vids}

InitVlan ==
    \E active_vlans \in {{0}, {0, 1}}, fl2 \in {{}, {"VLAN_PROMISC"}} :
        InitFrom(Enabled(Env(ixgbe_mac_82599EB, 0, 1500, active_vlans,
                             NumRarEntries, NumVfs + 1), {}, fl2))

NextVlan ==
    \/ \E vf \in ActiveVfs, ev \in VlanEvents : MsgTask(vf, ev)
    \/ \E vf \in ActiveVfs, vlan \in Vids : NdoSetVfVlan(vf, vlan, 0)
    \/ Return

SpecVlan == InitVlan /\ [][NextVlan]_vars

(***************************************************************************)
(* SpecReset: the reset handshake.  VF_RESET once and twice in a row and   *)
(* the reset indicator, on VFs holding VLAN filters, multicast hashes, an  *)
(* administrative port VLAN and MAC address, with the PF taking and        *)
(* releasing MAC filter entries for itself.                                *)
(***************************************************************************)
ResetEvents ==
    { MsgRead(ResetMsg), RstOnly,
      MsgRead(Msg(IXGBE_VF_SET_MULTICAST, 1, {}, ZeroMac, 0, <<5>>)),
      MsgRead(SetVlanMsg(1, 1)) }

\* the VF whose VF_RESET message was just processed sends VF_RESET again;
\* last.pre then holds the adapter and the reply of the first one
MsgTaskAgain(vf) ==
    /\ last.fn = "ixgbe_msg_task" /\ last.vf = vf
    /\ last.arg = MsgRead(ResetMsg)
    /\ last.pre.mbx = <<>>
    /\ Commit(ixgbe_msg_task(Adapter, {},
                             [v \in 0..(num_vfs - 1) |->
                                IF v = vf THEN last.arg ELSE NoEvent]))
    /\ last' = [last EXCEPT !.pre = [Adapter EXCEPT !.mbx = mbx]]
    /\ UNCHANGED rst_pending

InitReset ==
    InitFrom(Enabled(Env(ixgbe_mac_82599EB, 0, 1500, {0, 1}, NumRarEntries,
                         NumVfs + 1), {}, {}))

NextReset ==
    \/ \E vf \in ActiveVfs, ev \in ResetEvents : MsgTask(vf, ev)
    \/ \E vf \in ActiveVfs : MsgTaskAgain(vf)
    \/ \E vf \in ActiveVfs, vlan \in {0, 1} : NdoSetVfVlan(vf, vlan, 0)
    \/ \E vf \in ActiveVfs : NdoSetVfMac(vf, MacA)
    \/ \E count \in {0, ixgbe_available_rars(Adapter) + mac_table.pf - 1} :
           PfUcList(count)
    \/ Return

SpecReset == InitReset /\ [][NextReset]_vars


(***************************************************************************)
(* SpecMacvlan: the MAC-VLAN slots.  SET_MACVLAN requests of every kind    *)
(* (clear, replace, add) and VF resets on a pool of                        *)
(* num_rar_entries - (IXGBE_MAX_PF_MACVLANS + 1 + num_vfs) slots.          *)
(***************************************************************************)
SetMacvlanMsg(index, mac) ==
    Msg(IXGBE_VF_SET_MACVLAN, index, {}, mac, 0, NoHashes)

MacvlanEvents ==
    {MsgRead(ResetMsg), RstOnly, MsgRead(SetMacvlanMsg(0, ZeroMac))}
      \cup {MsgRead(SetMacvlanMsg(index, mac)) :
              index \in {1, 2}, mac \in {MacA, MacB}}

InitMacvlan ==
    InitFrom(Enabled(Env(ixgbe_mac_82599EB, 0, 1500, {0}, NumRarEntries,
                         NumVfs + 1), {}, {}))

NextMacvlan ==
    \/ \E vf \in ActiveVfs, ev \in MacvlanEvents : MsgTask(vf, ev)
    \/ \E vf \in ActiveVfs : NdoSetVfMac(vf, MacA)
    \/ \E vf \in ActiveVfs, setting \in BOOLEAN : NdoSetVfTrust(vf, setting)
    \/ Return

SpecMacvlan == InitMacvlan /\ [][NextMacvlan]_vars


(***************************************************************************)
(* SpecSriov: the lifecycle.  The administrator writes VF counts, the      *)
(* allocations and the PCI core succeed or fail, the number of traffic     *)
(* classes changes and VFs are assigned to guests and released.            *)
(***************************************************************************)
\* the VF counts written to sriov_numvfs: none, a few, one more than each
\* traffic-class limit, 40 and the most the device advertises
ReqVfs ==
    {0, NumVfs, IXGBE_MAX_VFS_8TC + 1, IXGBE_MAX_VFS_4TC + 1, 40, MaxReqVfs}

IoOutcomes ==
    { IoOk, [IoOk EXCEPT !.vfinfo_ok = FALSE], [IoOk EXCEPT !.mv_ok = FALSE],
      [IoOk EXCEPT !.pci_err = -ENOMEM] }

PciSriovConfigure(n, io) ==
    /\ Call("ixgbe_pci_sriov_configure", -1, [num_vfs |-> n, io |-> io],
            ixgbe_pci_sriov_configure(Adapter, n, io))
    /\ UNCHANGED rst_pending

\* the stack changes the number of traffic classes of the netdev; with
\* SR-IOV enabled, ixgbe_setup_tc refuses more than dcb_cfg.num_tcs
SetNumTc(tc) ==
    /\ last = Idle
    /\ tc # env.num_tc
    /\ "SRIOV_ENABLED" \in flags => tc <= dcb_tcs
    /\ env' = [env EXCEPT !.num_tc = tc]
    /\ UNCHANGED <<num_vfs, vfinfo, mv_list, flags, flags2, dcb_tcs,
                   vmdq_offset, vmdq_limit, mac_table, vlvf, vlvfb, vfta,
                   regs, pci, vf_rate_link_speed, mbx, rst_pending,
                   last>>

\* VFs are assigned to guests, or given back
VfsAssigned(assigned) ==
    /\ last = Idle
    /\ assigned # pci.vfs_assigned
    /\ assigned => pci.num_vf # 0
    /\ pci' = [pci EXCEPT !.vfs_assigned = assigned]
    /\ UNCHANGED <<num_vfs, vfinfo, mv_list, flags, flags2, dcb_tcs,
                   vmdq_offset, vmdq_limit, env, mac_table, vlvf, vlvfb, vfta,
                   regs, vf_rate_link_speed, mbx, rst_pending, last>>


\* the driver is reloaded with the module parameter max_vfs; the probe of
\* the new adapter runs ixgbe_enable_sriov
ProbeSriov(max_vfs, io) ==
    /\ Call("ixgbe_enable_sriov", -1, [max_vfs |-> max_vfs, io |-> io],
            ixgbe_enable_sriov(Reprobed(Adapter), max_vfs, io))
    /\ UNCHANGED rst_pending

InitSriov ==
    \E mt \in {ixgbe_mac_82599EB, ixgbe_mac_X550} :
        InitFrom(Probed(Env(mt, 0, 1500, {0}, 128, 64), {}, {}))

NextSriov ==
    \/ \E n \in ReqVfs, io \in IoOutcomes : PciSriovConfigure(n, io)
    \/ \E max_vfs \in {0, NumVfs, MaxReqVfs}, io \in IoOutcomes :
           ProbeSriov(max_vfs, io)
    \/ \E tc \in {0, 4, IXGBE_DCB_MAX_TRAFFIC_CLASS} : SetNumTc(tc)
    \/ \E assigned \in BOOLEAN : VfsAssigned(assigned)
    \/ Return

SpecSriov == InitSriov /\ [][NextSriov]_vars


(***************************************************************************)
(* SpecRate: the Tx rate limit of the VFs.  The administrator sets rates,  *)
(* the link goes up and down and changes its speed, and the watchdog       *)
(* checks the rate limits after a change of the link.                      *)
(***************************************************************************)
\* the rates asked for (Mbps): none, below, at and above 10, a share of the
\* link, the speed of the link and more than it
TxRates == {0, 5, 10, 11, 2000, 10000, 10001}

LinkSpeeds ==
    {"IXGBE_LINK_SPEED_UNKNOWN", "IXGBE_LINK_SPEED_100_FULL",
     "IXGBE_LINK_SPEED_1GB_FULL", "IXGBE_LINK_SPEED_10GB_FULL"}

NdoSetVfBw(vf, max_tx_rate) ==
    /\ Call("ixgbe_ndo_set_vf_bw", vf, max_tx_rate,
            ixgbe_ndo_set_vf_bw(Adapter, vf, max_tx_rate))
    /\ UNCHANGED rst_pending

CheckVfRateLimit ==
    /\ Call("ixgbe_check_vf_rate_limit", -1, <<>>,
            Ret(ixgbe_check_vf_rate_limit(Adapter), 0))
    /\ UNCHANGED rst_pending

\* the link comes up at a speed, or goes down
LinkChange(up, speed) ==
    /\ last = Idle
    /\ <<up, speed>> # <<env.link_up, env.link_speed>>
    /\ env' = [env EXCEPT !.link_up = up, !.link_speed = speed]
    /\ UNCHANGED <<num_vfs, vfinfo, mv_list, flags, flags2, dcb_tcs,
                   vmdq_offset, vmdq_limit, mac_table, vlvf, vlvfb, vfta,
                   regs, pci, vf_rate_link_speed, mbx, rst_pending, last>>

InitRate ==
    \E mt \in {ixgbe_mac_82599EB, ixgbe_mac_X540} :
        InitFrom(Enabled(Env(mt, 0, 1500, {0}, NumRarEntries, NumVfs + 1),
                         {}, {}))

NextRate ==
    \/ \E vf \in ActiveVfs, max_tx_rate \in TxRates :
           NdoSetVfBw(vf, max_tx_rate)
    \/ CheckVfRateLimit
    \/ \E up \in BOOLEAN, speed \in LinkSpeeds : LinkChange(up, speed)
    \/ Return

SpecRate == InitRate /\ [][NextRate]_vars

(***************************************************************************)
(* SpecIndex: the VF index at the entry points.  The administrator calls   *)
(* the setters and the query with indices inside and outside the table,    *)
(* SR-IOV is disabled and enabled again, and the mailbox task runs with    *)
(* the malicious-driver detection reporting any set of pools.              *)
(***************************************************************************)
\* the indices asked for: below the table, its first record, the pool of
\* the PF (the first index behind the table)
VfIndices == {-1, 0, NumVfs}

\* the pools the detection can report: the first VF and the pool of the PF
MddBitmaps == SUBSET {0, NumVfs}

LinkStates ==
    {IFLA_VF_LINK_STATE_AUTO, IFLA_VF_LINK_STATE_ENABLE,
     IFLA_VF_LINK_STATE_DISABLE}

NdoSetVfSpoofchk(vf, setting) ==
    /\ Call("ixgbe_ndo_set_vf_spoofchk", vf, setting,
            ixgbe_ndo_set_vf_spoofchk(Adapter, vf, setting))
    /\ UNCHANGED rst_pending

NdoSetVfLinkState(vf, state) ==
    /\ Call("ixgbe_ndo_set_vf_link_state", vf, state,
            ixgbe_ndo_set_vf_link_state(Adapter, vf, state))
    /\ UNCHANGED rst_pending

NdoSetVfRssQueryEn(vf, setting) ==
    /\ Call("ixgbe_ndo_set_vf_rss_query_en", vf, setting,
            ixgbe_ndo_set_vf_rss_query_en(Adapter, vf, setting))
    /\ UNCHANGED rst_pending

NdoGetVfConfig(vf) ==
    /\ Call("ixgbe_ndo_get_vf_config", vf, <<>>,
            ixgbe_ndo_get_vf_config(Adapter, vf))
    /\ UNCHANGED rst_pending

\* ixgbe_msg_task runs with no mailbox event and the detection reporting
\* the pools of vf_bitmap
MddSweep(vf_bitmap) ==
    /\ Call("ixgbe_msg_task", -1, vf_bitmap,
            Ret(ixgbe_msg_task(Adapter, vf_bitmap,
                               [v \in 0..(num_vfs - 1) |-> NoEvent]), 0))
    /\ UNCHANGED rst_pending

\* ixgbe_msg_task runs with a message in the mailbox of every VF
MsgSweep(m) ==
    /\ Call("ixgbe_msg_task", -1, {},
            Ret(ixgbe_msg_task(Adapter, {},
                               [v \in 0..(num_vfs - 1) |-> MsgRead(m)]), 0))
    /\ UNCHANGED rst_pending

InitIndex ==
    \E mt \in {ixgbe_mac_82599EB, ixgbe_mac_X550},
       behind \in {"unrelated", "mv_list"} :
        InitFrom(Enabled([Env(mt, 0, 1500, {0}, NumRarEntries, NumVfs + 1)
                            EXCEPT !.behind_vfinfo = behind],
                         IF mt = ixgbe_mac_X550 THEN {"MDD_ENABLED"} ELSE {},
                         {}))

NextIndex ==
    \/ \E vf \in VfIndices, setting \in BOOLEAN : NdoSetVfTrust(vf, setting)
    \/ \E vf \in VfIndices, mac \in {ZeroMac, MacA} : NdoSetVfMac(vf, mac)
    \/ \E vf \in VfIndices, vlan \in {0, 1} : NdoSetVfVlan(vf, vlan, 0)
    \/ \E vf \in VfIndices, max_tx_rate \in {0, 2000} :
           NdoSetVfBw(vf, max_tx_rate)
    \/ \E vf \in VfIndices, setting \in BOOLEAN : NdoSetVfSpoofchk(vf, setting)
    \/ \E vf \in VfIndices, state \in LinkStates : NdoSetVfLinkState(vf, state)
    \/ \E vf \in VfIndices, setting \in BOOLEAN :
           NdoSetVfRssQueryEn(vf, setting)
    \/ \E vf \in VfIndices : NdoGetVfConfig(vf)
    \/ \E vf_bitmap \in MddBitmaps : MddSweep(vf_bitmap)
    \/ MsgSweep(Msg(IXGBE_VF_GET_QUEUES, 0, {}, ZeroMac, 0, NoHashes))
    \/ \E n \in {0, NumVfs} : PciSriovConfigure(n, IoOk)
    \/ Return

SpecIndex == InitIndex /\ [][NextIndex]_vars

(***************************************************************************)
(* SpecLpe: the maximum frame size.  VFs on API 1.0 and 1.1 ask for frame  *)
(* sizes up to and beyond the jumbo limit, with the PF at the standard MTU *)
(* or a jumbo MTU, on 82599 and on X540.                                   *)
(***************************************************************************)
\* the frame sizes asked for: the standard one, a jumbo one, the largest
\* one and one more
LpeSizes ==
    {ETH_FRAME_LEN + ETH_FCS_LEN, 9000, IXGBE_MAX_JUMBO_FRAME_SIZE,
     IXGBE_MAX_JUMBO_FRAME_SIZE + 1}

LpeEvents ==
    {MsgRead(ResetMsg), MsgRead(Word(IXGBE_VF_API_NEGOTIATE, ixgbe_mbox_api_11))}
      \cup {MsgRead(Word(IXGBE_VF_SET_LPE, max_frame)) : max_frame \in LpeSizes}

InitLpe ==
    \E mt \in {ixgbe_mac_82599EB, ixgbe_mac_X540}, mtu \in {1500, 9000} :
        InitFrom(Enabled(Env(mt, 0, mtu, {0}, NumRarEntries, NumVfs + 1),
                         {}, {}))

NextLpe ==
    \/ \E vf \in ActiveVfs, ev \in LpeEvents : MsgTask(vf, ev)
    \/ \E vf \in ActiveVfs, setting \in BOOLEAN : NdoSetVfTrust(vf, setting)
    \/ Return

SpecLpe == InitLpe /\ [][NextLpe]_vars

(***************************************************************************)
(* SpecXcast: the receive mode of the VFs.  VFs on API 1.0, 1.2 and 1.3,   *)
(* trusted or not, ask for every receive mode, with the PF entering and    *)
(* leaving promiscuous mode, on 82599 and on X550.                         *)
(***************************************************************************)
\* the modes asked for: the four modes and a value that is none of them
XcastModes == IXGBEVF_XCAST_MODE_NONE..(IXGBEVF_XCAST_MODE_PROMISC + 1)

XcastEvents ==
    {MsgRead(ResetMsg)}
      \cup {MsgRead(Word(IXGBE_VF_API_NEGOTIATE, api)) :
               api \in {ixgbe_mbox_api_12, ixgbe_mbox_api_13}}
      \cup {MsgRead(Word(IXGBE_VF_UPDATE_XCAST_MODE, mode)) :
               mode \in XcastModes}

\* the PF enters or leaves promiscuous mode: FCTRL.UPE as
\* ixgbe_update_vf_xcast_mode reads it
PfPromisc(upe) ==
    /\ last = Idle
    /\ upe # env.fctrl_upe
    /\ env' = [env EXCEPT !.fctrl_upe = upe]
    /\ UNCHANGED <<num_vfs, vfinfo, mv_list, flags, flags2, dcb_tcs,
                   vmdq_offset, vmdq_limit, mac_table, vlvf, vlvfb, vfta,
                   regs, pci, vf_rate_link_speed, mbx, rst_pending, last>>

InitXcast ==
    \E mt \in {ixgbe_mac_82599EB, ixgbe_mac_X550} :
        InitFrom(Enabled(Env(mt, 0, 1500, {0}, NumRarEntries, NumVfs + 1),
                         {}, {}))

NextXcast ==
    \/ \E ev \in XcastEvents : MsgTask(0, ev)
    \/ \E setting \in BOOLEAN : NdoSetVfTrust(0, setting)
    \/ \E upe \in BOOLEAN : PfPromisc(upe)
    \/ Return

SpecXcast == InitXcast /\ [][NextXcast]_vars

(***************************************************************************)
(* SpecVlanMsg: SET_VLAN against the administrator.  VFs add and remove    *)
(* VLAN 0 and VLAN 1 while the administrator pins and releases port VLANs  *)
(* and the number of traffic classes changes.                              *)
(***************************************************************************)
VlanMsgEvents ==
    {MsgRead(ResetMsg)}
      \cup {MsgRead(SetVlanMsg(add, vid)) : add \in {0, 1}, vid \in {0, 1}}

InitVlanMsg ==
    InitFrom(Enabled(Env(ixgbe_mac_82599EB, 0, 1500, {0}, NumRarEntries,
                         NumVfs + 1), {}, {}))

NextVlanMsg ==
    \/ \E vf \in ActiveVfs, ev \in VlanMsgEvents : MsgTask(vf, ev)
    \/ \E vf \in ActiveVfs, vlan \in {0, 1} : NdoSetVfVlan(vf, vlan, 0)
    \/ \E tc \in {0, 4} : SetNumTc(tc)
    \/ Return

SpecVlanMsg == InitVlanMsg /\ [][NextVlanMsg]_vars

(***************************************************************************)
(* SpecMacvlanMsg: SET_MACVLAN requests with valid and invalid addresses.  *)
(* Both VFs take slots, clear them (index 0) and ask for filters on the    *)
(* zero address and on a multicast address.                                *)
(***************************************************************************)
MacvlanMsgEvents ==
    { MsgRead(ResetMsg),
      MsgRead(SetMacvlanMsg(0, ZeroMac)),
      MsgRead(SetMacvlanMsg(1, MacA)),
      MsgRead(SetMacvlanMsg(2, MacA)),
      MsgRead(SetMacvlanMsg(2, MacB)),
      MsgRead(SetMacvlanMsg(1, ZeroMac)),
      MsgRead(SetMacvlanMsg(2, McastMac)) }

InitMacvlanMsg ==
    InitFrom(Enabled(Env(ixgbe_mac_82599EB, 0, 1500, {0}, NumRarEntries,
                         NumVfs + 1), {}, {}))

NextMacvlanMsg ==
    \/ \E vf \in ActiveVfs, ev \in MacvlanMsgEvents : MsgTask(vf, ev)
    \/ Return

SpecMacvlanMsg == InitMacvlanMsg /\ [][NextMacvlanMsg]_vars

(***************************************************************************)
(* SpecMcast: the multicast hashes.  Both VFs send SET_MULTICAST with no   *)
(* entry, with a few, and with more than IXGBE_MAX_VF_MC_ENTRIES announced *)
(* in the header, and reset.                                               *)
(***************************************************************************)
SetMulticastMsg(entries, hashes) ==
    Msg(IXGBE_VF_SET_MULTICAST, entries, {}, ZeroMac, 0, hashes)

\* the payload of a full message: one hash in each of its 30 places
FullHashes == [i \in 1..IXGBE_MAX_VF_MC_ENTRIES |-> 100 + i]

McastEvents ==
    { MsgRead(ResetMsg),
      MsgRead(SetMulticastMsg(0, NoHashes)),
      MsgRead(SetMulticastMsg(1, <<7>>)),
      MsgRead(SetMulticastMsg(2, <<5, 6>>)),
      MsgRead(SetMulticastMsg(IXGBE_MAX_VF_MC_ENTRIES, FullHashes)),
      MsgRead(SetMulticastMsg(IXGBE_MAX_VF_MC_ENTRIES + 1, FullHashes)),
      MsgRead(SetMulticastMsg(255, FullHashes)) }

InitMcast ==
    InitFrom(Enabled(Env(ixgbe_mac_82599EB, 0, 1500, {0}, NumRarEntries,
                         NumVfs + 1), {}, {}))

NextMcast ==
    \/ \E vf \in ActiveVfs, ev \in McastEvents : MsgTask(vf, ev)
    \/ Return

SpecMcast == InitMcast /\ [][NextMcast]_vars

(***************************************************************************)
(* SpecPolicy: the administrator against the handshake.  Trust and link    *)
(* state of the VFs change, the queues of all VFs are updated, and the VFs *)
(* reset and send requests, with the interface up or down.                 *)
(***************************************************************************)
PolicyEvents ==
    { MsgRead(ResetMsg),
      MsgRead(Hdr(IXGBE_VF_GET_QUEUES, 0, {})),
      MsgRead(Word(IXGBE_VF_API_NEGOTIATE, ixgbe_mbox_api_13)) }

SetAllVfs ==
    /\ Call("ixgbe_set_all_vfs", -1, <<>>, Ret(ixgbe_set_all_vfs(Adapter), 0))
    /\ UNCHANGED rst_pending

InitPolicy ==
    \E down \in BOOLEAN :
        InitFrom(Enabled([Env(ixgbe_mac_82599EB, 0, 1500, {0}, NumRarEntries,
                              NumVfs + 1) EXCEPT !.down = down], {}, {}))

NextPolicy ==
    \/ \E vf \in ActiveVfs, ev \in PolicyEvents : MsgTask(vf, ev)
    \/ \E vf \in ActiveVfs, setting \in BOOLEAN : NdoSetVfTrust(vf, setting)
    \/ \E vf \in ActiveVfs, state \in LinkStates : NdoSetVfLinkState(vf, state)
    \/ SetAllVfs
    \/ Return

SpecPolicy == InitPolicy /\ [][NextPolicy]_vars

(***************************************************************************)
(* SpecSweep: one pass of ixgbe_msg_task over all VFs.  The mailboxes of   *)
(* the first and of the last VF hold any combination of a reset indicator, *)
(* a message (a request, VF_RESET, an unknown opcode, a message the PF has *)
(* answered, a failed read) and an ack.                                    *)
(***************************************************************************)
UnknownMsg == Hdr(7, 0, {})

SweepEvents ==
    { NoEvent, RstOnly, AckOnly, MsgReadError,
      MsgRead(ResetMsg),
      [MsgRead(ResetMsg) EXCEPT !.ack = TRUE],
      MsgRead(UnknownMsg),
      [MsgRead(UnknownMsg) EXCEPT !.ack = TRUE],
      [MsgRead(UnknownMsg) EXCEPT !.rst = TRUE, !.ack = TRUE],
      MsgRead(Word(IXGBE_VF_API_NEGOTIATE, ixgbe_mbox_api_13)),
      [MsgRead(Word(IXGBE_VF_API_NEGOTIATE, ixgbe_mbox_api_13))
         EXCEPT !.rst = TRUE],
      MsgRead(Hdr(IXGBE_VF_RESET, 0, {"SUCCESS"})),
      MsgRead([Word(IXGBE_VF_API_NEGOTIATE, ixgbe_mbox_api_13)
                 EXCEPT !.tags = {"FAILURE", "CTS"}]) }

\* ixgbe_msg_task runs with the mailbox of every VF v holding events[v]
MsgTaskAll(events) ==
    /\ Call("ixgbe_msg_task", -1, events,
            Ret(ixgbe_msg_task(Adapter, {}, events), 0))
    /\ rst_pending' = [v \in DOMAIN rst_pending |->
                          IF vfinfo = NULL \/ v \notin DOMAIN events
                          THEN rst_pending[v]
                          ELSE IF IsResetRead(events[v]) THEN FALSE
                          ELSE IF events[v].rst THEN TRUE ELSE rst_pending[v]]

InitSweep ==
    InitFrom(Enabled(Env(ixgbe_mac_82599EB, 0, 1500, {0}, NumRarEntries,
                         NumVfs + 1), {}, {}))

NextSweep ==
    \/ \E first \in SweepEvents, other \in SweepEvents :
           MsgTaskAll([v \in 0..(num_vfs - 1) |->
                         IF v = 0 THEN first
                         ELSE IF v = NumVfs - 1 THEN other ELSE NoEvent])
    \/ Return

SpecSweep == InitSweep /\ [][NextSweep]_vars

(***************************************************************************)
(* SpecFrame: what a message of one VF does to the other VFs.  VF 0 sends  *)
(* every kind of request; the last VF resets, takes a MAC-VLAN slot and    *)
(* sets a multicast hash; the administrator has or has not given it a MAC  *)
(* address, trust, a port VLAN and a rate limit before.                    *)
(***************************************************************************)
FrameEvents ==
    { MsgRead(ResetMsg),
      [MsgRead(ResetMsg) EXCEPT !.rst = TRUE],
      MsgRead(Msg(IXGBE_VF_SET_MAC_ADDR, 0, {}, MacA, 0, NoHashes)),
      MsgRead(SetMulticastMsg(1, <<7>>)),
      MsgRead(SetVlanMsg(1, 1)),
      MsgRead(Word(IXGBE_VF_SET_LPE, ETH_FRAME_LEN + ETH_FCS_LEN)),
      MsgRead(SetMacvlanMsg(0, ZeroMac)),
      MsgRead(SetMacvlanMsg(1, MacB)),
      MsgRead(Word(IXGBE_VF_API_NEGOTIATE, ixgbe_mbox_api_13)),
      MsgRead(Word(IXGBE_VF_UPDATE_XCAST_MODE, IXGBEVF_XCAST_MODE_MULTI)),
      MsgRead(Hdr(IXGBE_VF_GET_QUEUES, 0, {})),
      MsgRead(UnknownMsg) }

OtherEvents ==
    { MsgRead(ResetMsg),
      MsgRead(SetMulticastMsg(1, <<7>>)),
      MsgRead(SetMacvlanMsg(1, MacB)) }

\* the administrator's settings of vf: MAC address, trust, port VLAN, rate
AdminSetup(a, vf) ==
    [ixgbe_ndo_set_vf_bw(
         ixgbe_ndo_set_vf_vlan(
             ixgbe_ndo_set_vf_trust(
                 ixgbe_ndo_set_vf_mac(a, vf, MacB).a, vf, TRUE).a,
             vf, 2, 3).a,
         vf, 100).a EXCEPT !.mbx = <<>>]

InitFrame ==
    \E admin \in BOOLEAN :
        LET a == Enabled(Env(ixgbe_mac_82599EB, 0, 1500, {0}, NumRarEntries,
                             NumVfs + 1), {}, {})
        IN  InitFrom(IF admin THEN AdminSetup(a, NumVfs - 1) ELSE a)

NextFrame ==
    \/ \E ev \in FrameEvents : MsgTask(0, ev)
    \/ \E ev \in OtherEvents : MsgTask(NumVfs - 1, ev)
    \/ Return

SpecFrame == InitFrame /\ [][NextFrame]_vars

(***************************************************************************)
(* SpecApi: the requests that depend on the negotiated API version.  The   *)
(* VFs reset, negotiate versions 1.0, 1.2, 1.3 and an unknown one, and ask *)
(* for what needs a version; the administrator turns the RSS query of a VF *)
(* on and off.                                                             *)
(***************************************************************************)
ApiEvents ==
    { MsgRead(ResetMsg), RstOnly,
      MsgRead(Word(IXGBE_VF_API_NEGOTIATE, ixgbe_mbox_api_10)),
      MsgRead(Word(IXGBE_VF_API_NEGOTIATE, ixgbe_mbox_api_12)),
      MsgRead(Word(IXGBE_VF_API_NEGOTIATE, ixgbe_mbox_api_13)),
      MsgRead(Word(IXGBE_VF_API_NEGOTIATE, 99)),
      MsgRead(Hdr(IXGBE_VF_GET_QUEUES, 0, {})),
      MsgRead(Hdr(IXGBE_VF_GET_RETA, 0, {})),
      MsgRead(Hdr(IXGBE_VF_GET_RSS_KEY, 0, {})),
      MsgRead(Word(IXGBE_VF_UPDATE_XCAST_MODE, IXGBEVF_XCAST_MODE_MULTI)),
      MsgRead(Hdr(IXGBE_VF_GET_LINK_STATE, 0, {})) }

InitApi ==
    InitFrom(Enabled(Env(ixgbe_mac_82599EB, 0, 1500, {0}, NumRarEntries,
                         NumVfs + 1), {}, {}))

NextApi ==
    \/ \E vf \in ActiveVfs, ev \in ApiEvents : MsgTask(vf, ev)
    \/ \E vf \in ActiveVfs, setting \in BOOLEAN :
           NdoSetVfRssQueryEn(vf, setting)
    \/ Return

SpecApi == InitApi /\ [][NextApi]_vars

(***************************************************************************)
(* SpecPing: the control pings.  An X550 with the malicious driver         *)
(* detection on; the VFs complete their handshake, the detection reports   *)
(* them, the administrator changes trust and link state, and the PF pings  *)
(* all VFs.                                                                *)
(***************************************************************************)
PingAllVfs ==
    /\ Call("ixgbe_ping_all_vfs", -1, <<>>, Ret(ixgbe_ping_all_vfs(Adapter), 0))
    /\ UNCHANGED rst_pending

InitPing ==
    InitFrom(Enabled(Env(ixgbe_mac_X550, 0, 1500, {0}, NumRarEntries,
                         NumVfs + 1), {"MDD_ENABLED"}, {}))

NextPing ==
    \/ \E vf \in ActiveVfs : MsgTask(vf, MsgRead(ResetMsg))
    \/ \E vf \in ActiveVfs : MddTask(vf)
    \/ \E vf \in ActiveVfs, setting \in BOOLEAN : NdoSetVfTrust(vf, setting)
    \/ \E vf \in ActiveVfs :
           NdoSetVfLinkState(vf, IFLA_VF_LINK_STATE_DISABLE)
    \/ PingAllVfs
    \/ Return

SpecPing == InitPing /\ [][NextPing]_vars

(***************************************************************************)
(* SpecLink: the administrative link state.  The administrator disables    *)
(* and restores the link of the VFs while they reset, negotiate API 1.1    *)
(* and ask for a standard and a jumbo frame size, on 82599 and on X540.    *)
(***************************************************************************)
LinkEvents ==
    {MsgRead(ResetMsg), MsgRead(Word(IXGBE_VF_API_NEGOTIATE, ixgbe_mbox_api_11)),
     MsgRead(Word(IXGBE_VF_SET_LPE, ETH_FRAME_LEN + ETH_FCS_LEN)),
     MsgRead(Word(IXGBE_VF_SET_LPE, 9000)),
     MsgRead(Word(IXGBE_VF_GET_QUEUES, 0))}

InitLink ==
    \E mt \in {ixgbe_mac_82599EB, ixgbe_mac_X540} :
        InitFrom(Enabled(Env(mt, 0, 1500, {0}, NumRarEntries, NumVfs + 1),
                         {}, {}))

NextLink ==
    \/ \E vf \in ActiveVfs, ev \in LinkEvents : MsgTask(vf, ev)
    \/ \E vf \in ActiveVfs, state \in LinkStates : NdoSetVfLinkState(vf, state)
    \/ Return

SpecLink == InitLink /\ [][NextLink]_vars

(***************************************************************************)
(* SpecSlots: the MAC-VLAN slots with a MAC table that fills up.  Both VFs *)
(* reset, add MAC-VLAN filters with index 1 and 2, clear them, and ask for *)
(* a multicast address, while the PF fills the rest of the MAC table with  *)
(* its own unicast addresses and empties it again.                         *)
(***************************************************************************)
InitSlots ==
    InitFrom(Enabled(Env(ixgbe_mac_82599EB, 0, 1500, {0}, NumRarEntries,
                         NumVfs + 1), {}, {}))

NextSlots ==
    \/ \E vf \in ActiveVfs, ev \in MacvlanMsgEvents : MsgTask(vf, ev)
    \/ \E count \in {0, ixgbe_available_rars(Adapter) + mac_table.pf - 1} :
           PfUcList(count)
    \/ Return

SpecSlots == InitSlots /\ [][NextSlots]_vars

(***************************************************************************)
(* Properties of the mailbox protocol engine                               *)
(***************************************************************************)
\* the adapter now, without the mailbox writes of the call
Now == Adapter

\* the call that just ran was ixgbe_msg_task finding a message, and nothing
\* else, in the mailbox of vf; ixgbe_read_mbx succeeded
ReadMsg(vf) ==
    /\ last.fn = "ixgbe_msg_task"
    /\ last.vf = vf
    /\ last.arg.msg /\ ~last.arg.rst /\ ~last.arg.ack
    /\ last.arg.rd.err = 0

\* ... and the message is one the PF has not answered yet and is not VF_RESET
ReadRequest(vf) ==
    /\ ReadMsg(vf)
    /\ last.arg.rd.msg.tags \cap {"SUCCESS", "FAILURE"} = {}
    /\ ~IsResetMsg(last.arg.rd.msg)

\* the call processed a VF_RESET message of vf
ReadReset(vf) ==
    /\ last.fn = "ixgbe_msg_task"
    /\ last.vf = vf
    /\ IsResetRead(last.arg)

\* the one-word FAILURE answer to message m
Refusal(vf, m) ==
    [vf |-> vf, len |-> 1, msg |-> [m EXCEPT !.tags = @ \cup {"FAILURE"}]]

\* C1: while clear_to_send of a VF is false, every request other than
\* VF_RESET that the PF processes from that VF is answered with FAILURE and
\* changes nothing: no handler runs, the VF record (the whole adapter) is as
\* before; and clear_to_send becomes true only by processing a VF_RESET
\* message of that VF.
C1_GateClosed ==
    \A vf \in Vfs :
        /\ (ReadRequest(vf) /\ ~last.pre.vfinfo[vf].clear_to_send)
             => /\ mbx = <<Refusal(vf, last.arg.rd.msg)>>
                /\ vfinfo[vf] = last.pre.vfinfo[vf]
                /\ Now = last.pre
        /\ (last # Idle /\ ~last.pre.vfinfo[vf].clear_to_send
              /\ vfinfo[vf].clear_to_send)
             => ReadReset(vf)

\* C1 witness: a VF that completed the handshake, was then made trusted
\* (which clears clear_to_send) and asks for a MAC address: refused
C1_Witness ==
    \E vf \in Vfs :
        /\ ReadRequest(vf)
        /\ ~last.pre.vfinfo[vf].clear_to_send
        /\ last.pre.vfinfo[vf].trusted
        /\ last.arg.rd.msg.op = IXGBE_VF_SET_MAC_ADDR
        /\ is_valid_ether_addr(last.arg.rd.msg.mac)
        /\ mbx = <<Refusal(vf, last.arg.rd.msg)>>

\* C2: while a reset of a VF is outstanding (the reset indicator was seen
\* and ixgbe_vf_reset_event ran, no VF_RESET message processed since),
\* clear_to_send of the VF is false and its requests are refused without
\* running a handler.
C2_ResetOutstanding ==
    \A vf \in Vfs :
        /\ rst_pending[vf] => ~vfinfo[vf].clear_to_send
        /\ (ReadRequest(vf) /\ rst_pending[vf])
             => mbx = <<Refusal(vf, last.arg.rd.msg)>>

\* C6: a request other than VF_RESET read from a VF whose clear_to_send is
\* true gets exactly one response, written to the mailbox of that VF, tagged
\* CTS and SUCCESS when the handler returned 0, CTS and FAILURE otherwise.
C6_OneReply ==
    \A vf \in Vfs :
        (ReadRequest(vf) /\ last.pre.vfinfo[vf].clear_to_send)
          => /\ Len(mbx) = 1
             /\ mbx[1].vf = vf
             /\ "CTS" \in mbx[1].msg.tags
             /\ ("SUCCESS" \in mbx[1].msg.tags) # ("FAILURE" \in mbx[1].msg.tags)
             /\ ("SUCCESS" \in mbx[1].msg.tags)
                  <=> (Dispatch(last.pre, last.arg.rd.msg, vf).ret = 0)


(***************************************************************************)
(* Properties of MAC address ownership (SpecMac)                           *)
(***************************************************************************)
\* the primary MAC filter of vf for address m is in the table of adapter a
HasMacFilter(a, vf, m) == BagIn(<<m, vf>>, a.mac_table.vf)

\* the MAC address vf had when the call started
PreMac(vf) == last.pre.vfinfo[vf].vf_mac_addresses

\* the call was given a SET_MAC_ADDR message of vf, and vf was clear to send
ReadSetMac(vf) ==
    /\ ReadRequest(vf)
    /\ last.arg.rd.msg.op = IXGBE_VF_SET_MAC_ADDR
    /\ last.pre.vfinfo[vf].clear_to_send

\* C3 (amended): when a VF_RESET message is processed, clear_to_send is true
\* afterwards in every case, the VLAN filters of the VF were cleared down to
\* the one of its PF-pinned VLAN (VLAN 0 when none), its multicast hashes and
\* API version were reset, and its last-known MAC address was either
\* re-applied (record unchanged, filter in the table) or, the table being
\* full, dropped (record zeroed, no filter): a failed re-apply does not keep
\* clear_to_send false.
C3_ResetCompletes ==
    \A vf \in Vfs :
        ReadReset(vf) =>
          /\ vfinfo[vf].clear_to_send
          /\ vfinfo[vf].vf_api = ixgbe_mbox_api_10
          /\ vfinfo[vf].num_vf_mc_hashes = 0
          /\ \A i \in VlvfIdx :
                 vf \in vlvfb[i]
                   => vlvf[i] = [vien |-> TRUE, vid |-> vfinfo[vf].pf_vlan]
          /\ \/ /\ vfinfo[vf].vf_mac_addresses = PreMac(vf)
                /\ is_zero_ether_addr(PreMac(vf))
                     \/ HasMacFilter(Now, vf, PreMac(vf))
             \/ /\ ~is_zero_ether_addr(PreMac(vf))
                /\ vfinfo[vf].vf_mac_addresses = ZeroMac
                /\ ~HasMacFilter(Now, vf, PreMac(vf))
                /\ MacTableUsed(Now) >= env.num_rar_entries

\* C3 witness: a reset whose MAC re-apply failed, clear_to_send set all the same
C3_Witness ==
    \E vf \in Vfs :
        /\ ReadReset(vf)
        /\ ~is_zero_ether_addr(PreMac(vf))
        /\ vfinfo[vf].vf_mac_addresses = ZeroMac
        /\ vfinfo[vf].clear_to_send

\* C3 as claimed: if re-applying the MAC address fails while a VF_RESET
\* message is processed, clear_to_send is not set to true.
C3_Original ==
    \A vf \in Vfs :
        (/\ ReadReset(vf)
         /\ ~is_zero_ether_addr(PreMac(vf))
         /\ ~HasMacFilter(Now, vf, PreMac(vf)))
          => ~vfinfo[vf].clear_to_send

\* C4 (amended): the reply to a VF_RESET message is one message of
\* IXGBE_VF_PERMADDR_MSG_LEN words written to the mailbox of the same VF; it is
\* SUCCESS carrying the MAC address of the VF when the PF pinned a MAC
\* (pf_set_mac) and the record still holds a non-zero address after the
\* re-apply, and FAILURE without an address otherwise: no MAC assigned, a MAC
\* set by the VF itself, or a pinned MAC whose filter could not be re-added.
C4_ResetReply ==
    \A vf \in Vfs :
        ReadReset(vf) =>
          /\ Len(mbx) = 1
          /\ mbx[1].vf = vf
          /\ mbx[1].len = IXGBE_VF_PERMADDR_MSG_LEN
          /\ mbx[1].msg.op = IXGBE_VF_RESET
          /\ IF last.pre.vfinfo[vf].pf_set_mac
                  /\ ~is_zero_ether_addr(PreMac(vf))
                  /\ HasMacFilter(Now, vf, PreMac(vf))
             THEN /\ mbx[1].msg.tags = {"SUCCESS"}
                  /\ mbx[1].msg.mac = PreMac(vf)
                  /\ vfinfo[vf].vf_mac_addresses = PreMac(vf)
             ELSE /\ mbx[1].msg.tags = {"FAILURE"}
                  /\ mbx[1].msg.mac = ZeroMac

\* C4 witness: a VF with a PF-pinned address resets and is told the address
C4_Witness ==
    \E vf \in Vfs :
        /\ ReadReset(vf)
        /\ last.pre.vfinfo[vf].pf_set_mac
        /\ Len(mbx) = 1
        /\ mbx[1].msg.tags = {"SUCCESS"}
        /\ mbx[1].msg.mac = MacA

\* C4 as claimed: the reply to VF_RESET goes to the same VF and is SUCCESS
\* with the MAC address if the PF previously pinned a MAC for the VF,
\* FAILURE if not.
C4_Original ==
    \A vf \in Vfs :
        ReadReset(vf) =>
          /\ Len(mbx) = 1
          /\ mbx[1].vf = vf
          /\ IF last.pre.vfinfo[vf].pf_set_mac
             THEN "SUCCESS" \in mbx[1].msg.tags
                    /\ ~is_zero_ether_addr(mbx[1].msg.mac)
             ELSE "FAILURE" \in mbx[1].msg.tags

\* C7 (amended): a SET_MAC_ADDR message from an untrusted VF whose MAC the PF
\* pinned, asking for another address, is answered FAILURE and changes neither
\* the record of the VF nor the MAC filter table; the same message with a
\* valid unicast address from a trusted VF that is clear to send is answered
\* SUCCESS and the record and the filter hold the new address, unless the
\* filter table is full: then it is answered FAILURE and the record's MAC
\* address is zeroed.
C7_SetMacPolicy ==
    \A vf \in Vfs :
        /\ (/\ ReadSetMac(vf)
            /\ last.pre.vfinfo[vf].pf_set_mac
            /\ ~last.pre.vfinfo[vf].trusted
            /\ last.arg.rd.msg.mac # PreMac(vf))
             => /\ Len(mbx) = 1 /\ "FAILURE" \in mbx[1].msg.tags
                /\ vfinfo[vf] = last.pre.vfinfo[vf]
                /\ mac_table = last.pre.mac_table
        /\ (/\ ReadSetMac(vf)
            /\ last.pre.vfinfo[vf].trusted
            /\ is_valid_ether_addr(last.arg.rd.msg.mac))
             => /\ Len(mbx) = 1
                /\ \/ /\ "SUCCESS" \in mbx[1].msg.tags
                      /\ vfinfo[vf].vf_mac_addresses = last.arg.rd.msg.mac
                      /\ HasMacFilter(Now, vf, last.arg.rd.msg.mac)
                   \/ /\ "FAILURE" \in mbx[1].msg.tags
                      /\ vfinfo[vf].vf_mac_addresses = ZeroMac
                      /\ MacTableUsed(Now) >= env.num_rar_entries

\* C7 witness: a trusted VF with a PF-pinned address changes it
C7_Witness ==
    \E vf \in Vfs :
        /\ ReadSetMac(vf)
        /\ last.pre.vfinfo[vf].pf_set_mac
        /\ last.pre.vfinfo[vf].trusted
        /\ last.arg.rd.msg.mac # PreMac(vf)
        /\ "SUCCESS" \in mbx[1].msg.tags
        /\ vfinfo[vf].vf_mac_addresses = last.arg.rd.msg.mac

\* C7 as claimed: SET_MAC_ADDR with a valid unicast address from a trusted VF
\* always succeeds and updates the record.
C7_Original ==
    \A vf \in Vfs :
        (/\ ReadSetMac(vf)
         /\ last.pre.vfinfo[vf].trusted
         /\ is_valid_ether_addr(last.arg.rd.msg.mac))
          => /\ Len(mbx) = 1 /\ "SUCCESS" \in mbx[1].msg.tags
             /\ vfinfo[vf].vf_mac_addresses = last.arg.rd.msg.mac


(***************************************************************************)
(* Properties of the reset handshake (SpecReset)                           *)
(***************************************************************************)
\* the VLVF entries whose pool bits include pool p
PoolEntries(a, p) == {i \in VlvfIdx : p \in a.vlvfb[i]}

\* the enabled VLVF entries of VLAN v
VlanEntries(a, v) == {i \in VlvfIdx : a.vlvf[i] = [vien |-> TRUE, vid |-> v]}

\* the call processed the second of two VF_RESET messages of vf in a row
ReadResetAgain(vf) == ReadReset(vf) /\ last.pre.mbx # <<>>

\* C5: the reset handshake is idempotent: the second of two VF_RESET
\* messages in a row gets the same reply as the first (same status, same
\* MAC address) and leaves the VF record as the first left it; after each
\* the VF has no multicast hash entry and no VLAN filter but the one of its
\* port VLAN (VLAN 0 when the PF pinned none), which it does have.
C5_ResetIdempotent ==
    \A vf \in Vfs :
        /\ ReadReset(vf)
             => /\ vfinfo[vf].num_vf_mc_hashes = 0
                /\ PoolEntries(Now, vf) = VlanEntries(Now, vfinfo[vf].pf_vlan)
                /\ PoolEntries(Now, vf) # {}
        /\ ReadResetAgain(vf)
             => /\ mbx = last.pre.mbx
                /\ vfinfo[vf] = last.pre.vfinfo[vf]

\* C5 witness: a VF with a port VLAN and a pinned MAC address sent VF_RESET
\* twice; both replies are SUCCESS with that address and the VF is in the
\* pool of its port VLAN
C5_Witness ==
    \E vf \in Vfs :
        /\ ReadResetAgain(vf)
        /\ mbx = last.pre.mbx
        /\ mbx[1].msg.tags = {"SUCCESS"}
        /\ mbx[1].msg.mac = MacA
        /\ vfinfo[vf].pf_vlan = 1
        /\ PoolEntries(Now, vf) = VlanEntries(Now, 1)
        /\ PoolEntries(Now, vf) # {}

\* C5 as stated: ... and after each VF_RESET the VF has no VLAN filter and
\* no multicast hash entry
C5_Original ==
    \A vf \in Vfs :
        /\ ReadReset(vf)
             => /\ vfinfo[vf].num_vf_mc_hashes = 0
                /\ PoolEntries(Now, vf) = {}
        /\ ReadResetAgain(vf)
             => /\ mbx = last.pre.mbx
                /\ vfinfo[vf] = last.pre.vfinfo[vf]

(***************************************************************************)
(* Properties of VLAN isolation (SpecVlan)                                 *)
(***************************************************************************)
\* the pool of the PF is on an enabled VLVF entry of VLAN v
PfHas(a, v) == \E i \in VlanEntries(a, v) : VMDQ_P0(a) \in a.vlvfb[i]

\* the pool of some VF is on an enabled VLVF entry of VLAN v
VfHas(a, v) == \E i \in VlanEntries(a, v) : a.vlvfb[i] \ {VMDQ_P0(a)} # {}

UsedSlots(a) == {i \in DOMAIN a.mv_list : ~a.mv_list[i].free}
OwnedSlots(a, vf) == {i \in DOMAIN a.mv_list : a.mv_list[i].vf = vf}

\* the call handed a SET_MACVLAN request of vf to ixgbe_set_vf_macvlan
ReadSetMacvlan(vf) ==
    /\ ReadRequest(vf)
    /\ last.arg.rd.msg.op = IXGBE_VF_SET_MACVLAN
    /\ last.pre.vfinfo[vf].clear_to_send
    /\ ~(last.pre.vfinfo[vf].pf_set_mac /\ ~last.pre.vfinfo[vf].trusted
           /\ last.arg.rd.msg.info > 0)
    /\ last.arg.rd.msg.info # 0 => is_valid_ether_addr(last.arg.rd.msg.mac)

\* the return value of ixgbe_set_vf_macvlan in that call
MacvlanRet(vf) ==
    ixgbe_set_vf_macvlan(last.pre, vf, last.arg.rd.msg.info,
                         last.arg.rd.msg.mac).ret

\* every slot was in use when the call began
PoolFull == UsedSlots(last.pre) = DOMAIN last.pre.mv_list

\* C8: the slots in use never exceed the pool, whose size is
\* num_rar_entries - (IXGBE_MAX_PF_MACVLANS + 1 + num_vfs), and a slot in
\* use belongs to a VF and has its MAC filter.  With every slot in use, a
\* request with index 2 or more, or with index 1 from a VF that owns no
\* slot, fails with -ENOSPC and changes no slot; a request with index 1 from
\* a VF that owns slots releases all of them and takes one.  A request with
\* index 0 releases every slot of the VF, however many it owns, and no other.
C8_MacvlanSlots ==
    /\ Len2(mv_list) = num_vf_macvlans(Now, num_vfs)
    /\ Cardinality(UsedSlots(Now)) <= Len2(mv_list)
    /\ \A i \in UsedSlots(Now) :
           /\ mv_list[i].vf \in Vfs
           /\ HasMacFilter(Now, mv_list[i].vf, mv_list[i].vf_macvlan)
    /\ \A vf \in Vfs : ReadSetMacvlan(vf) =>
         /\ (PoolFull /\ (last.arg.rd.msg.info >= 2
                            \/ OwnedSlots(last.pre, vf) = {}))
              /\ last.arg.rd.msg.info # 0
              => /\ MacvlanRet(vf) = -ENOSPC
                 /\ Len(mbx) = 1 /\ "FAILURE" \in mbx[1].msg.tags
                 /\ mv_list = last.pre.mv_list
                 /\ mac_table = last.pre.mac_table
         /\ (PoolFull /\ last.arg.rd.msg.info = 1
               /\ OwnedSlots(last.pre, vf) # {})
              => /\ Len(mbx) = 1 /\ "SUCCESS" \in mbx[1].msg.tags
                 /\ Cardinality(OwnedSlots(Now, vf)) = 1
                 /\ UsedSlots(Now) = (UsedSlots(last.pre)
                                        \ OwnedSlots(last.pre, vf))
                                       \cup OwnedSlots(Now, vf)
         /\ last.arg.rd.msg.info = 0
              => /\ Len(mbx) = 1 /\ "SUCCESS" \in mbx[1].msg.tags
                 /\ OwnedSlots(Now, vf) = {}
                 /\ UsedSlots(Now) = UsedSlots(last.pre)
                                       \ OwnedSlots(last.pre, vf)
                 /\ \A i \in UsedSlots(Now) : mv_list[i] = last.pre.mv_list[i]

\* C8 witness: a VF that owned every slot of the pool, more than one, asked
\* to clear them (index 0): all of them are free again
C8_Witness ==
    \E vf \in Vfs :
        /\ ReadSetMacvlan(vf)
        /\ last.arg.rd.msg.info = 0
        /\ PoolFull
        /\ OwnedSlots(last.pre, vf) = DOMAIN mv_list
        /\ Cardinality(OwnedSlots(last.pre, vf)) > 1
        /\ UsedSlots(Now) = {}

\* C8 as stated: ... with every slot in use the next request with a nonzero
\* index fails with -ENOSPC and changes no slot, and a request with index 0
\* from a VF that owns a slot frees exactly one slot
C8_Original ==
    /\ Cardinality(UsedSlots(Now)) <= Len2(mv_list)
    /\ \A vf \in Vfs : ReadSetMacvlan(vf) =>
         /\ (PoolFull /\ last.arg.rd.msg.info # 0)
              => /\ MacvlanRet(vf) = -ENOSPC
                 /\ mv_list = last.pre.mv_list
         /\ (last.arg.rd.msg.info = 0 /\ OwnedSlots(last.pre, vf) # {})
              => Cardinality(UsedSlots(Now))
                   = Cardinality(UsedSlots(last.pre)) - 1


(***************************************************************************)
(* Properties of the lifecycle (SpecSriov)                                 *)
(***************************************************************************)
\* the call was ixgbe_pci_sriov_configure asking for more VFs than the
\* number of traffic classes allows
OverTcLimit ==
    /\ last.fn = "ixgbe_pci_sriov_configure"
    /\ last.arg.num_vfs > MaxVfsForTc(last.pre.env.num_tc)

\* C10: a request for more VFs than the traffic-class limit (1 TC: 63, 2 to
\* 4 TCs: 31, more than 4 TCs: 15) is rejected with an error and allocates no
\* VF table.  With no VFs enabled before, the error is -EPERM and nothing
\* changes, num_vfs included; with VFs enabled before, they are torn down
\* first, so num_vfs is 0 and the table gone after the rejection.
C10_TcLimit ==
    OverTcLimit =>
        /\ last.ret < 0
        /\ vfinfo = NULL \/ vfinfo = last.pre.vfinfo
        /\ last.pre.pci.num_vf = 0 => (last.ret = -EPERM /\ Now = last.pre)
        /\ last.pre.pci.num_vf # 0
             => (last.ret = -EPERM /\ num_vfs = 0 /\ vfinfo = NULL)

\* C10 witness: 40 VFs asked for with 4 traffic classes and NumVfs VFs
\* enabled: rejected, and the VFs that were enabled are gone
C10_Witness ==
    /\ OverTcLimit
    /\ last.arg.num_vfs = 40
    /\ last.pre.env.num_tc = 4
    /\ last.pre.num_vfs = NumVfs
    /\ last.ret = -EPERM
    /\ num_vfs = 0

\* C10 as stated: ... on such a rejection no VF table is allocated and
\* num_vfs keeps its previous value
C10_Original ==
    OverTcLimit =>
        /\ last.ret < 0
        /\ vfinfo = NULL \/ vfinfo = last.pre.vfinfo
        /\ num_vfs = last.pre.num_vfs


\* the call was ixgbe_pci_sriov_configure changing the number of VFs of an
\* adapter that has VFs, some of them assigned to guests
ReconfigureBusy ==
    /\ last.fn = "ixgbe_pci_sriov_configure"
    /\ last.arg.num_vfs # 0
    /\ last.pre.num_vfs > 0
    /\ last.arg.num_vfs # last.pre.num_vfs
    /\ last.pre.pci.num_vf # 0
    /\ last.arg.num_vfs # last.pre.pci.num_vf
    /\ "SRIOV_ENABLED" \in last.pre.flags
    /\ last.pre.pci.vfs_assigned

\* C11: when the number of VFs is changed while SR-IOV is enabled and the
\* disable step fails because VFs are assigned to a guest, the call fails,
\* num_vfs is what it was before the call and the VF table is still
\* allocated.
C11_ReconfigureAborted ==
    ReconfigureBusy =>
        /\ last.ret = -EPERM
        /\ num_vfs = last.pre.num_vfs
        /\ vfinfo # NULL

\* the call failed in an allocation of __ixgbe_enable_sriov or in
\* pci_enable_sriov (the only sources of -ENOMEM)
EnableFailed ==
    /\ last.fn \in {"ixgbe_pci_sriov_configure", "ixgbe_enable_sriov"}
    /\ last.ret = -ENOMEM

\* C12: after an enable that failed in the allocation of the VF table or in
\* pci_enable_sriov, on either enable path, SRIOV_ENABLED and VMDQ_ENABLED
\* are clear, num_vfs is 0 and neither a VF table nor a MAC-VLAN pool is
\* allocated.
C12_EnableUnwinds ==
    EnableFailed =>
        /\ flags \cap {"SRIOV_ENABLED", "VMDQ_ENABLED"} = {}
        /\ num_vfs = 0
        /\ vfinfo = NULL
        /\ mv_list = NULL

\* C13: in every state, num_vfs > 0 implies that the VF table is allocated
\* and holds at least num_vfs records.
C13_TableCoversCount ==
    num_vfs > 0 => (vfinfo # NULL /\ Len2(vfinfo) >= num_vfs)


\* the call was ixgbe_pci_sriov_configure(0), which runs ixgbe_disable_sriov,
\* on an adapter with SR-IOV enabled and VFs assigned to guests
DisableBusy ==
    /\ last.fn = "ixgbe_pci_sriov_configure"
    /\ last.arg.num_vfs = 0
    /\ last.pre.num_vfs > 0
    /\ "SRIOV_ENABLED" \in last.pre.flags
    /\ last.pre.pci.vfs_assigned

\* C15: disabling while VFs are assigned to a guest returns -EPERM and leaves
\* the virtualization mode on (SRIOV_ENABLED set, the VFs of the PCI device
\* and the pool offset kept), and it does not leave SRIOV_ENABLED set with
\* the VF table freed.
C15_DisableBusyKeepsTable ==
    DisableBusy =>
        /\ last.ret = -EPERM
        /\ "SRIOV_ENABLED" \in flags
        /\ pci = last.pre.pci
        /\ vmdq_offset = last.pre.vmdq_offset
        /\ ~("SRIOV_ENABLED" \in flags /\ vfinfo = NULL)


(***************************************************************************)
(* Properties of the Tx rate limit (SpecRate)                              *)
(***************************************************************************)
\* the call was ixgbe_ndo_set_vf_bw for an existing VF
SetBw(vf) ==
    /\ last.fn = "ixgbe_ndo_set_vf_bw"
    /\ last.vf = vf
    /\ vf < last.pre.num_vfs

\* the link is up at 10000 Mbps and the rate is 0 or from 10 to 10000
BwAcceptable ==
    /\ last.pre.env.link_up
    /\ last.pre.env.link_speed = "IXGBE_LINK_SPEED_10GB_FULL"
    /\ last.arg = 0 \/ (last.arg >= 10 /\ last.arg <= 10000)

\* C18: ixgbe_ndo_set_vf_bw is rejected, with the adapter unchanged, when the
\* link is not up at 10000 Mbps or the nonzero rate is below 10 or above the
\* link speed; rate 0 and every rate from 10 to the link speed are accepted,
\* stored in tx_rate and written to each Tx queue of the VF as the rate
\* factor (10000 << 14) / rate within the 24 bits of the field, with the
\* scheduler enable bit, or as 0 for rate 0.
C18_RateLimit ==
    \A vf \in Vfs :
        SetBw(vf) =>
            IF BwAcceptable
            THEN /\ last.ret = 0
                 /\ vfinfo[vf].tx_rate = last.arg
                 /\ \A q \in {2 * vf, 2 * vf + 1} :
                        regs.bcnrc[q]
                          = IF last.arg = 0 THEN [rs_ena |-> FALSE, rf |-> 0]
                            ELSE [rs_ena |-> TRUE,
                                  rf |-> (163840000 \div last.arg) % 16777216]
            ELSE /\ last.ret < 0
                 /\ Now = last.pre


(***************************************************************************)
(* Properties of the VF index checks (SpecIndex)                           *)
(***************************************************************************)
AdminEntryPoints ==
    {"ixgbe_ndo_set_vf_trust", "ixgbe_ndo_set_vf_mac", "ixgbe_ndo_set_vf_vlan",
     "ixgbe_ndo_set_vf_bw", "ixgbe_ndo_set_vf_spoofchk",
     "ixgbe_ndo_set_vf_link_state", "ixgbe_ndo_set_vf_rss_query_en",
     "ixgbe_ndo_get_vf_config"}

\* an administrative entry point has run with an index outside the table
IndexOutside ==
    /\ last.fn \in AdminEntryPoints
    /\ (last.vf < 0 \/ last.vf >= last.pre.num_vfs)

\* the indices of vfinfo the run of ixgbe_msg_task in last has used
SweepIndices ==
    IF last.pre.vfinfo = NULL THEN {}
    ELSE (IF "MDD_ENABLED" \in last.pre.flags
          THEN mdd_vfinfo_indices(last.pre, last.arg) ELSE {})
         \cup 0..(last.pre.num_vfs - 1)

\* C14: every entry point checks the VF index against num_vfs before it
\* uses a record: the administrative setters and ixgbe_ndo_get_vf_config
\* return an error and change nothing for vf < 0 or vf >= num_vfs, and the
\* mailbox sweep and the malicious-driver sweep use no record vfinfo[vf]
\* with vf >= num_vfs, whatever pools the detection reports.
C14_IndexChecked ==
    /\ IndexOutside => last.ret < 0 /\ Now = last.pre
    /\ last.fn = "ixgbe_msg_task" =>
           SweepIndices \subseteq 0..(last.pre.num_vfs - 1)

\* the part of C14 about the administrative entry points and the loop of
\* the mailbox sweep
IndexCheckedButMdd ==
    /\ IndexOutside => last.ret < 0 /\ Now = last.pre
    /\ last.fn = "ixgbe_msg_task" /\ last.arg = {} =>
           SweepIndices \subseteq 0..(last.pre.num_vfs - 1)


(***************************************************************************)
(* Properties of the mailbox handlers (Spec)                               *)
(***************************************************************************)
\* the call was given an API_NEGOTIATE request of vf for a version the PF
\* does not support
ReadBadApi(vf) ==
    /\ ReadRequest(vf)
    /\ last.arg.rd.msg.op = IXGBE_VF_API_NEGOTIATE
    /\ last.arg.rd.msg.w1 \notin SupportedApis

\* C16: an API_NEGOTIATE request for a version that is not 1.0, 1.1, 1.2 or
\* 1.3 is answered with FAILURE and leaves the api version of the VF as it
\* was; the api version of every VF is a supported one in every state.
C16_ApiNegotiate ==
    /\ \A vf \in Vfs :
           ReadBadApi(vf) =>
             /\ Len(mbx) = 1
             /\ mbx[1].vf = vf
             /\ "FAILURE" \in mbx[1].msg.tags
             /\ "SUCCESS" \notin mbx[1].msg.tags
             /\ vfinfo[vf].vf_api = last.pre.vfinfo[vf].vf_api
    /\ vfinfo # NULL =>
           \A vf \in DOMAIN vfinfo : vfinfo[vf].vf_api \in SupportedApis

\* C16 witness: a VF that is clear to send and negotiated version 1.3 asks
\* for version 99: refused, and its version is still 1.3
C16_Witness ==
    \E vf \in Vfs :
        /\ ReadBadApi(vf)
        /\ last.arg.rd.msg.w1 = 99
        /\ last.pre.vfinfo[vf].clear_to_send
        /\ last.pre.vfinfo[vf].vf_api = ixgbe_mbox_api_13
        /\ vfinfo[vf].vf_api = ixgbe_mbox_api_13
        /\ "FAILURE" \in mbx[1].msg.tags


(***************************************************************************)
(* Properties of the maximum frame size (SpecLpe)                          *)
(***************************************************************************)
\* the call was given a SET_LPE request of vf, clear to send, on 82599
ReadSetLpe(vf) ==
    /\ ReadRequest(vf)
    /\ last.arg.rd.msg.op = IXGBE_VF_SET_LPE
    /\ last.pre.vfinfo[vf].clear_to_send
    /\ last.pre.env.mac_type = ixgbe_mac_82599EB

\* the frame size vf asked for cannot be had: the PF runs jumbo frames and
\* the VF is on the legacy API, or the VF asks for more than a standard
\* frame and the PF does not run jumbo frames
LpeUnsatisfiable(vf) ==
    \/ /\ last.pre.env.mtu + ETH_HLEN > ETH_FRAME_LEN
       /\ last.pre.vfinfo[vf].vf_api \notin
             {ixgbe_mbox_api_11, ixgbe_mbox_api_12, ixgbe_mbox_api_13}
    \/ /\ last.pre.env.mtu + ETH_HLEN <= ETH_FRAME_LEN
       /\ last.arg.rd.msg.w1 > ETH_FRAME_LEN + ETH_FCS_LEN

\* C17: on 82599 a SET_LPE request that cannot be satisfied clears the
\* bit of the VF in VFRE, is answered with FAILURE and leaves MAXFRS as it
\* was; a request that can be satisfied is answered with SUCCESS.
C17_SetLpe ==
    \A vf \in Vfs :
        ReadSetLpe(vf) =>
          IF LpeUnsatisfiable(vf)
          THEN /\ vf \notin regs.vfre
               /\ Len(mbx) = 1 /\ mbx[1].vf = vf
               /\ "FAILURE" \in mbx[1].msg.tags
               /\ regs.maxfrs = last.pre.regs.maxfrs
          ELSE /\ Len(mbx) = 1 /\ mbx[1].vf = vf
               /\ "SUCCESS" \in mbx[1].msg.tags

\* C17 for the requests of at most IXGBE_MAX_JUMBO_FRAME_SIZE octets
SetLpeInRange ==
    (last.fn = "ixgbe_msg_task" /\ last.arg.msg
       => last.arg.rd.msg.w1 <= IXGBE_MAX_JUMBO_FRAME_SIZE)
      => C17_SetLpe


(***************************************************************************)
(* Properties of the receive mode (SpecXcast)                              *)
(***************************************************************************)
\* the call was given an UPDATE_XCAST_MODE request of vf, clear to send
ReadXcast(vf) ==
    /\ ReadRequest(vf)
    /\ last.arg.rd.msg.op = IXGBE_VF_UPDATE_XCAST_MODE
    /\ last.pre.vfinfo[vf].clear_to_send

\* the request was answered with SUCCESS, the mode in the answer being mode
XcastGranted(vf, mode) ==
    /\ Len(mbx) = 1 /\ mbx[1].vf = vf
    /\ "SUCCESS" \in mbx[1].msg.tags
    /\ mbx[1].msg.w1 = mode

\* the request was answered with FAILURE, and the receive mode of the VF
\* and its VMOLR are as before
XcastRefused(vf) ==
    /\ Len(mbx) = 1 /\ mbx[1].vf = vf
    /\ "FAILURE" \in mbx[1].msg.tags
    /\ vfinfo[vf].xcast_mode = last.pre.vfinfo[vf].xcast_mode
    /\ regs.vmolr[vf] = last.pre.regs.vmolr[vf]

\* what ixgbe_update_vf_xcast_mode returned to ixgbe_rcv_msg_from_vf
XcastRet(vf) ==
    ixgbe_update_vf_xcast_mode(last.pre, last.arg.rd.msg, vf).ret

PreApi(vf) == last.pre.vfinfo[vf].vf_api
AskedMode == last.arg.rd.msg.w1

\* C19 as stated: a request of an untrusted VF for a mode above MULTI is
\* downgraded to MULTI and answered with SUCCESS; PROMISC is refused below
\* API 1.3; PROMISC of a trusted VF is refused with a permission error,
\* mode and VMOLR unchanged, unless the PF is promiscuous.
C19_Original ==
    \A vf \in Vfs :
        ReadXcast(vf) =>
          /\ (AskedMode = IXGBEVF_XCAST_MODE_PROMISC
                 /\ PreApi(vf) # ixgbe_mbox_api_13)
               => XcastRefused(vf)
          /\ (AskedMode > IXGBEVF_XCAST_MODE_MULTI
                 /\ ~last.pre.vfinfo[vf].trusted
                 /\ ~(AskedMode = IXGBEVF_XCAST_MODE_PROMISC
                        /\ PreApi(vf) # ixgbe_mbox_api_13))
               => /\ XcastGranted(vf, IXGBEVF_XCAST_MODE_MULTI)
                  /\ vfinfo[vf].xcast_mode = IXGBEVF_XCAST_MODE_MULTI
          /\ (AskedMode = IXGBEVF_XCAST_MODE_PROMISC
                 /\ PreApi(vf) = ixgbe_mbox_api_13
                 /\ last.pre.vfinfo[vf].trusted
                 /\ ~last.pre.env.fctrl_upe)
               => XcastRefused(vf) /\ XcastRet(vf) = -EPERM


\* C19 (amended): UPDATE_XCAST_MODE from a VF below API 1.2 is refused
\* whatever the mode, and PROMISC is refused below API 1.3; on API 1.2
\* and 1.3 a request of an untrusted VF for a mode above MULTI that is not
\* refused so is downgraded to MULTI (stored and echoed mode MULTI, reply
\* SUCCESS); PROMISC of a trusted VF on API 1.3 that is not in PROMISC
\* already is refused, mode and VMOLR unchanged, unless the PF is
\* promiscuous: with a permission error on hardware later than 82599, as
\* unsupported on 82599 (where it is refused also with the PF promiscuous).
C19_XcastPolicy ==
    \A vf \in Vfs :
        ReadXcast(vf) =>
          /\ PreApi(vf) \notin {ixgbe_mbox_api_12, ixgbe_mbox_api_13}
               => XcastRefused(vf)
          /\ (AskedMode = IXGBEVF_XCAST_MODE_PROMISC
                 /\ PreApi(vf) # ixgbe_mbox_api_13)
               => XcastRefused(vf)
          /\ (AskedMode > IXGBEVF_XCAST_MODE_MULTI
                 /\ ~last.pre.vfinfo[vf].trusted
                 /\ PreApi(vf) \in {ixgbe_mbox_api_12, ixgbe_mbox_api_13}
                 /\ ~(AskedMode = IXGBEVF_XCAST_MODE_PROMISC
                        /\ PreApi(vf) # ixgbe_mbox_api_13))
               => /\ XcastGranted(vf, IXGBEVF_XCAST_MODE_MULTI)
                  /\ vfinfo[vf].xcast_mode = IXGBEVF_XCAST_MODE_MULTI
          /\ (AskedMode = IXGBEVF_XCAST_MODE_PROMISC
                 /\ PreApi(vf) = ixgbe_mbox_api_13
                 /\ last.pre.vfinfo[vf].trusted
                 /\ last.pre.vfinfo[vf].xcast_mode # IXGBEVF_XCAST_MODE_PROMISC)
               => IF last.pre.env.mac_type <= ixgbe_mac_82599EB
                  THEN XcastRefused(vf) /\ XcastRet(vf) = -EOPNOTSUPP
                  ELSE ~last.pre.env.fctrl_upe
                         => XcastRefused(vf) /\ XcastRet(vf) = -EPERM

\* C19 witness: a trusted VF on API 1.3 of an X550 whose PF is not
\* promiscuous asks for PROMISC: permission error, FAILURE, nothing changed
C19_Witness ==
    \E vf \in Vfs :
        /\ ReadXcast(vf)
        /\ AskedMode = IXGBEVF_XCAST_MODE_PROMISC
        /\ PreApi(vf) = ixgbe_mbox_api_13
        /\ last.pre.vfinfo[vf].trusted
        /\ last.pre.vfinfo[vf].xcast_mode = IXGBEVF_XCAST_MODE_ALLMULTI
        /\ last.pre.env.mac_type = ixgbe_mac_X550
        /\ ~last.pre.env.fctrl_upe
        /\ XcastRet(vf) = -EPERM
        /\ XcastRefused(vf)


(***************************************************************************)
(* Properties of SET_VLAN against the administrator (SpecVlanMsg)          *)
(***************************************************************************)
\* the call was given a SET_VLAN request of vf, clear to send
ReadSetVlan(vf) ==
    /\ ReadRequest(vf)
    /\ last.arg.rd.msg.op = IXGBE_VF_SET_VLAN
    /\ last.pre.vfinfo[vf].clear_to_send

\* the VLAN filter state of adapter a: VLVF, VLVFB and VFTA
VlanFilters(a) == <<a.vlvf, a.vlvfb, a.vfta>>

\* the PF pinned a port VLAN for vf, or traffic classes are active
VlanLocked(vf) ==
    last.pre.vfinfo[vf].pf_vlan # 0 \/ last.pre.env.num_tc # 0

\* C20: a SET_VLAN request (add or remove, any VLAN) of a VF for which the
\* PF pinned a port VLAN, or with traffic classes active, is answered with
\* FAILURE and changes no VLAN filter; otherwise a request to remove VLAN 0
\* is answered with SUCCESS and changes no VLAN filter.
C20_SetVlanRefused ==
    \A vf \in Vfs :
        ReadSetVlan(vf) =>
          /\ VlanLocked(vf)
               => /\ Len(mbx) = 1 /\ mbx[1].vf = vf
                  /\ "FAILURE" \in mbx[1].msg.tags
                  /\ VlanFilters(Now) = VlanFilters(last.pre)
          /\ (~VlanLocked(vf) /\ last.arg.rd.msg.info = 0
                 /\ last.arg.rd.msg.w1 = 0)
               => /\ Len(mbx) = 1 /\ mbx[1].vf = vf
                  /\ "SUCCESS" \in mbx[1].msg.tags
                  /\ VlanFilters(Now) = VlanFilters(last.pre)

\* C20 witness: a VF with a port VLAN pinned, and no traffic classes, asks
\* to add a VLAN: refused, filters unchanged
C20_Witness ==
    \E vf \in Vfs :
        /\ ReadSetVlan(vf)
        /\ last.pre.vfinfo[vf].pf_vlan = 1
        /\ last.pre.env.num_tc = 0
        /\ last.arg.rd.msg.info = 1
        /\ "FAILURE" \in mbx[1].msg.tags
        /\ VlanFilters(Now) = VlanFilters(last.pre)


(***************************************************************************)
(* Properties of SET_MACVLAN requests (SpecMacvlanMsg)                     *)
(***************************************************************************)
\* the call was given a SET_MACVLAN request of vf, clear to send, with
\* index 0
ReadMacvlanClear(vf) ==
    /\ ReadRequest(vf)
    /\ last.arg.rd.msg.op = IXGBE_VF_SET_MACVLAN
    /\ last.pre.vfinfo[vf].clear_to_send
    /\ last.arg.rd.msg.info = 0

\* the call was given a SET_MACVLAN request of vf with a nonzero index and
\* an address that is not a valid unicast address
ReadMacvlanInvalid(vf) ==
    /\ ReadRequest(vf)
    /\ last.arg.rd.msg.op = IXGBE_VF_SET_MACVLAN
    /\ last.arg.rd.msg.info # 0
    /\ ~is_valid_ether_addr(last.arg.rd.msg.mac)

\* the MAC filters of the slots vf owned when the call began, as a bag
OwnedFilters(vf) ==
    LET own == OwnedSlots(last.pre, vf)
    IN  [f \in {<<last.pre.mv_list[i].vf_macvlan, vf>> : i \in own} |->
           Cardinality({i \in own : last.pre.mv_list[i].vf_macvlan = f[1]})]

\* C21: SET_MACVLAN with index 0 from a VF releases every slot the VF owns
\* (the slot is free, has no owner, and its MAC filter is out of the table)
\* and leaves the slots of the other VFs as they were; a request with a
\* nonzero index and an address that is not a valid unicast address fails
\* and changes no slot.
C21_MacvlanClear ==
    \A vf \in Vfs :
        /\ ReadMacvlanClear(vf) =>
              /\ \A i \in OwnedSlots(last.pre, vf) :
                     /\ mv_list[i].free
                     /\ mv_list[i].vf = -1
              /\ mac_table.vf (+) OwnedFilters(vf) = last.pre.mac_table.vf
              /\ \A i \in DOMAIN mv_list \ OwnedSlots(last.pre, vf) :
                     mv_list[i] = last.pre.mv_list[i]
        /\ ReadMacvlanInvalid(vf) =>
              /\ Len(mbx) = 1 /\ mbx[1].vf = vf
              /\ "FAILURE" \in mbx[1].msg.tags
              /\ mv_list = last.pre.mv_list

\* C21 witness: a VF that owns a slot, the other slot being owned by the
\* other VF, clears its slots: its slot is free, the other one is in use
C21_Witness ==
    \E vf \in Vfs :
        /\ ReadMacvlanClear(vf)
        /\ OwnedSlots(last.pre, vf) # {}
        /\ \E w \in Vfs \ {vf} : OwnedSlots(last.pre, w) # {}
        /\ \A i \in OwnedSlots(last.pre, vf) : mv_list[i].free
        /\ UsedSlots(Now) # {}


(***************************************************************************)
(* Properties of the multicast hashes (SpecMcast)                          *)
(***************************************************************************)
\* the call was given a SET_MULTICAST request of vf, clear to send
ReadSetMulticast(vf) ==
    /\ ReadRequest(vf)
    /\ last.arg.rd.msg.op = IXGBE_VF_SET_MULTICAST
    /\ last.pre.vfinfo[vf].clear_to_send

\* the shared multicast table holds the hashes of the records of all VFs
MtaInSync ==
    regs.mta = UNION {HashSet(vfinfo[i].vf_mc_hashes,
                              vfinfo[i].num_vf_mc_hashes) : i \in DOMAIN vfinfo}

\* C22: SET_MULTICAST never fails and replaces the hash list of the VF: with
\* n entries announced in the header, num_vf_mc_hashes is min(n, 30)
\* afterwards and the stored hashes are the first min(n, 30) of the message;
\* num_vf_mc_hashes is at most 30 in every state; every such message
\* rebuilds the shared multicast table.
C22_SetMulticast ==
    /\ vfinfo # NULL =>
          \A vf \in DOMAIN vfinfo :
              vfinfo[vf].num_vf_mc_hashes <= IXGBE_MAX_VF_MC_ENTRIES
    /\ \A vf \in Vfs :
          ReadSetMulticast(vf) =>
            /\ Len(mbx) = 1 /\ mbx[1].vf = vf
            /\ "SUCCESS" \in mbx[1].msg.tags
            /\ vfinfo[vf].num_vf_mc_hashes
                  = Min(last.arg.rd.msg.info, IXGBE_MAX_VF_MC_ENTRIES)
            /\ \A i \in 1..vfinfo[vf].num_vf_mc_hashes :
                  vfinfo[vf].vf_mc_hashes[i] = last.arg.rd.msg.hashes[i]
            /\ MtaInSync

\* C22 witness: a VF holding two hashes announces 31 entries: 30 are
\* stored, the ones of the message
C22_Witness ==
    \E vf \in Vfs :
        /\ ReadSetMulticast(vf)
        /\ last.arg.rd.msg.info = IXGBE_MAX_VF_MC_ENTRIES + 1
        /\ last.pre.vfinfo[vf].num_vf_mc_hashes = 2
        /\ vfinfo[vf].num_vf_mc_hashes = IXGBE_MAX_VF_MC_ENTRIES
        /\ vfinfo[vf].vf_mc_hashes[IXGBE_MAX_VF_MC_ENTRIES]
              = FullHashes[IXGBE_MAX_VF_MC_ENTRIES]


(***************************************************************************)
(* Properties of the administrator against the handshake (SpecPolicy)      *)
(***************************************************************************)
\* the control ping of a VF that is not clear to send
PingNoCts(vf) ==
    [vf |-> vf, len |-> 1,
     msg |-> Msg(IXGBE_PF_CONTROL_MSG, 0, {}, ZeroMac, 0, NoHashes)]

\* the call changed the trust of vf
TrustChanged(vf) ==
    /\ last.fn = "ixgbe_ndo_set_vf_trust" /\ last.vf = vf
    /\ last.pre.vfinfo[vf].trusted # last.arg

\* the call set the trust of vf to the value it had
TrustKept(vf) ==
    /\ last.fn = "ixgbe_ndo_set_vf_trust" /\ last.vf = vf
    /\ last.pre.vfinfo[vf].trusted = last.arg

\* the call ran ixgbe_set_vf_link_state for vf
LinkStateSet(vf) ==
    \/ /\ last.fn = "ixgbe_ndo_set_vf_link_state" /\ last.vf = vf
       /\ last.arg \in {IFLA_VF_LINK_STATE_AUTO, IFLA_VF_LINK_STATE_DISABLE}
    \/ last.fn = "ixgbe_set_all_vfs"

\* C23: a change of the trust of a VF, and ixgbe_set_vf_link_state, set
\* clear_to_send of the VF to false and then ping it, so that its requests
\* other than VF_RESET are refused until it completes a reset handshake
\* (clear_to_send turns true by a VF_RESET message only); setting the trust
\* to the value it has changes nothing and sends no ping.
C23_Rehandshake ==
    \A vf \in Vfs :
        /\ (TrustChanged(vf) \/ LinkStateSet(vf))
             => /\ ~vfinfo[vf].clear_to_send
                /\ \E i \in 1..Len(mbx) : mbx[i] = PingNoCts(vf)
        /\ TrustChanged(vf) => vfinfo[vf].trusted = last.arg
        /\ TrustKept(vf) => Now = last.pre /\ mbx = <<>> /\ last.ret = 0
        /\ (ReadRequest(vf) /\ ~last.pre.vfinfo[vf].clear_to_send)
             => /\ Len(mbx) = 1 /\ "FAILURE" \in mbx[1].msg.tags
                /\ ~vfinfo[vf].clear_to_send
        /\ (last # Idle /\ vfinfo[vf].clear_to_send
               /\ ~last.pre.vfinfo[vf].clear_to_send)
             => ReadReset(vf)

\* C23 witness: a VF that completed the handshake had its link state set
\* to disabled; it is pinged and no longer clear to send
C23_Witness ==
    \E vf \in Vfs :
        /\ last.fn = "ixgbe_ndo_set_vf_link_state" /\ last.vf = vf
        /\ last.arg = IFLA_VF_LINK_STATE_DISABLE
        /\ last.pre.vfinfo[vf].clear_to_send
        /\ ~vfinfo[vf].clear_to_send
        /\ ~vfinfo[vf].link_enable
        /\ mbx = <<PingNoCts(vf)>>


(***************************************************************************)
(* Properties of the malicious-driver detection (Spec)                     *)
(***************************************************************************)
\* the call was a run of ixgbe_msg_task in which ixgbe_check_mdd_event found
\* the pools of last.arg reported by the backend
MddSwept ==
    /\ last.fn = "ixgbe_check_mdd_event"
    /\ "MDD_ENABLED" \in last.pre.flags
    /\ last.pre.env.mac_type >= ixgbe_mac_X550

\* the control message ixgbe_check_mdd_event sends to vf
MddPing(vf) ==
    [vf |-> vf, len |-> 1,
     msg |-> Msg(IXGBE_PF_CONTROL_MSG, 0, {"CTS"}, ZeroMac, 0, NoHashes)]

\* C24: after a sweep of the malicious-driver detection every VF the
\* backend reported has its queues restored, is not clear to send and was
\* sent a control message, so that its requests other than VF_RESET are
\* refused until a reset handshake; the VFs not reported keep their
\* clear_to_send.
C24_MddSweep ==
    \A vf \in Vfs :
        /\ (MddSwept /\ vf \in last.arg)
             => /\ vf \notin regs.mdd_blocked
                /\ ~vfinfo[vf].clear_to_send
                /\ \E i \in 1..Len(mbx) : mbx[i] = MddPing(vf)
        /\ (MddSwept /\ vf \notin last.arg)
             => /\ vfinfo[vf].clear_to_send = last.pre.vfinfo[vf].clear_to_send
                /\ \A i \in 1..Len(mbx) : mbx[i].vf # vf
        /\ (ReadRequest(vf) /\ ~last.pre.vfinfo[vf].clear_to_send)
             => /\ mbx = <<Refusal(vf, last.arg.rd.msg)>>
                /\ ~vfinfo[vf].clear_to_send

\* C24 witness: the detection reports a VF that completed the handshake on
\* an X550; the VF is not clear to send any more, the other VF is as before
C24_Witness ==
    \E vf \in Vfs :
        /\ MddSwept /\ last.arg = {vf}
        /\ last.pre.vfinfo[vf].clear_to_send
        /\ ~vfinfo[vf].clear_to_send
        /\ mbx = <<MddPing(vf)>>
        /\ \E w \in Vfs \ {vf} : vfinfo[w].clear_to_send


(***************************************************************************)
(* Properties of one pass of ixgbe_msg_task over all VFs                   *)
(***************************************************************************)
\* the call that just ran was a pass of ixgbe_msg_task over all mailboxes
SweptAll == last # Idle /\ last.fn = "ixgbe_msg_task" /\ last.vf = -1

\* the case labels of the switch in ixgbe_rcv_msg_from_vf
SwitchOps ==
    { IXGBE_VF_SET_MAC_ADDR, IXGBE_VF_SET_MULTICAST, IXGBE_VF_SET_VLAN,
      IXGBE_VF_SET_LPE, IXGBE_VF_SET_MACVLAN, IXGBE_VF_API_NEGOTIATE,
      IXGBE_VF_GET_QUEUES, IXGBE_VF_GET_RETA, IXGBE_VF_GET_RSS_KEY,
      IXGBE_VF_UPDATE_XCAST_MODE, IXGBE_VF_GET_LINK_STATE }

\* the pass read from the mailbox of vf an untagged message of an opcode the
\* switch has no case for
UnknownRead(vf) ==
    /\ SweptAll
    /\ last.arg[vf].msg /\ last.arg[vf].rd.err = 0
    /\ last.arg[vf].rd.msg.tags \cap {"SUCCESS", "FAILURE"} = {}
    /\ last.arg[vf].rd.msg.op \notin SwitchOps \cup {IXGBE_VF_RESET}

\* the response to message m of vf that carries the outcome tag
Answer(vf, m, tag) ==
    [vf |-> vf, len |-> IXGBE_VFMAILBOX_SIZE,
     msg |-> [m EXCEPT !.tags = @ \cup {tag, "CTS"}]]

\* the same pass with the message indicator of vf not set
WithoutMsg(vf) ==
    ixgbe_msg_task(last.pre, {}, [last.arg EXCEPT ![vf].msg = FALSE])

\* C25: a message of an unknown opcode from a VF whose clear_to_send is true
\* is answered with FAILURE on the mailbox of that VF and changes nothing:
\* the adapter after the pass (every VF record, the MAC-VLAN pool) is what
\* the pass without that message leaves, so every other indicator of every VF
\* was processed, and the mailboxes hold what that pass writes plus the one
\* FAILURE answer.
C25_UnknownOpcode ==
    \A vf \in Vfs :
        (UnknownRead(vf) /\ last.pre.vfinfo[vf].clear_to_send)
          => LET fail == Answer(vf, last.arg[vf].rd.msg, "FAILURE")
                 IsOther(w) == w # fail
             IN  /\ Now = [WithoutMsg(vf) EXCEPT !.mbx = <<>>]
                 /\ SelectSeq(mbx, IsOther) = WithoutMsg(vf).mbx
                 /\ Len(mbx) = Len(WithoutMsg(vf).mbx) + 1
                 /\ (\A w \in Vfs : ~last.arg[w].rst /\ (last.arg[w].msg => w = vf))
                      => vfinfo = last.pre.vfinfo /\ mv_list = last.pre.mv_list

\* VF 0, after its handshake, sent an unknown opcode with its ack indicator
\* set, and the last VF completed its handshake later in the same pass
C25_Witness ==
    /\ UnknownRead(0) /\ last.pre.vfinfo[0].clear_to_send
    /\ last.arg[0].ack
    /\ IsResetRead(last.arg[NumVfs - 1])
    /\ ~last.pre.vfinfo[NumVfs - 1].clear_to_send
    /\ vfinfo[NumVfs - 1].clear_to_send


\* the pass read from the mailbox of vf a message that carries SUCCESS or
\* FAILURE
TaggedRead(vf) ==
    /\ SweptAll
    /\ last.arg[vf].msg /\ last.arg[vf].rd.err = 0
    /\ last.arg[vf].rd.msg.tags \cap {"SUCCESS", "FAILURE"} # {}

\* nothing but the message of vf was pending in the pass
OnlyMsgOf(vf) ==
    \A w \in Vfs : /\ ~last.arg[w].rst /\ ~last.arg[w].ack
                   /\ last.arg[w].msg => w = vf

\* C26: a message read from a mailbox that already carries a SUCCESS or
\* FAILURE tag is dropped: no handler runs, the reset handler included, no
\* response is written and nothing changes.  The pass leaves what the pass
\* without that message leaves, mailbox writes included; when nothing else
\* was pending the adapter is as before and no mailbox was written.
C26_TaggedDropped ==
    \A vf \in Vfs :
        TaggedRead(vf)
          => /\ Now = [WithoutMsg(vf) EXCEPT !.mbx = <<>>]
             /\ mbx = WithoutMsg(vf).mbx
             /\ OnlyMsgOf(vf) => Now = last.pre /\ mbx = <<>>

\* VF 0, its handshake done and API 1.3 negotiated, has a VF_RESET tagged
\* SUCCESS in its mailbox: the record keeps clear_to_send and the API version
C26_Witness ==
    /\ TaggedRead(0) /\ OnlyMsgOf(0)
    /\ last.arg[0].rd.msg.op = IXGBE_VF_RESET
    /\ last.pre.vfinfo[0].clear_to_send
    /\ last.pre.vfinfo[0].vf_api = ixgbe_mbox_api_13
    /\ vfinfo[0].clear_to_send /\ vfinfo[0].vf_api = ixgbe_mbox_api_13


\* the call that just ran was ixgbe_msg_task reading a message, of any opcode
\* and with any outcome, from the mailbox of vf
ProcessedMsg(vf) ==
    last # Idle /\ last.fn = "ixgbe_msg_task" /\ last.vf = vf /\ last.arg.msg

\* the MAC-VLAN slots that vf owned before the call
SlotsBefore(vf) ==
    {i \in DOMAIN last.pre.mv_list :
        ~last.pre.mv_list[i].free /\ last.pre.mv_list[i].vf = vf}

\* C27: processing a mailbox message of VF v, VF_RESET included, leaves the
\* record of every other VF w as it was (MAC address, pf_set_mac, trust, port
\* VLAN and QoS, multicast hashes, xcast_mode, api version, clear_to_send,
\* link and rate fields) and leaves every MAC-VLAN slot that w owns owned by
\* w, with its address.
C27_OtherVfsUntouched ==
    \A vf \in Vfs : \A w \in Vfs \ {vf} :
        ProcessedMsg(vf)
          => /\ vfinfo[w] = last.pre.vfinfo[w]
             /\ \A i \in SlotsBefore(w) : mv_list[i] = last.pre.mv_list[i]

\* VF 0 completed a reset by message while the last VF, set up by the
\* administrator and by its own requests, owned a MAC-VLAN slot
C27_Witness ==
    /\ ProcessedMsg(0) /\ IsResetRead(last.arg)
    /\ vfinfo[0] # last.pre.vfinfo[0]
    /\ SlotsBefore(0) # {} /\ SlotsBefore(NumVfs - 1) # {}
    /\ vfinfo[NumVfs - 1].trusted /\ vfinfo[NumVfs - 1].pf_set_mac
    /\ vfinfo[NumVfs - 1].pf_vlan = 2 /\ vfinfo[NumVfs - 1].tx_rate = 100
    /\ vfinfo[NumVfs - 1].clear_to_send
    /\ vfinfo[NumVfs - 1].num_vf_mc_hashes = 1


\* the three handlers applied to a for the indicators of vf: reset, then
\* message, then ack
ResetMsgAck(a, vf, ev) ==
    LET a1 == IF ev.rst THEN ixgbe_vf_reset_event(a, vf) ELSE a
        a2 == IF ev.msg THEN ixgbe_rcv_msg_from_vf(a1, vf, ev.rd).a ELSE a1
    IN  IF ev.ack THEN ixgbe_rcv_ack_from_vf(a2, vf) ELSE a2

\* C29: a pass of ixgbe_msg_task visits the VFs in increasing order, each
\* once, and handles for each VF the reset indicator, then the message, then
\* the ack: the record of each VF and the writes to its mailbox are those of
\* the reset handler, the message handler on the state the reset handler
\* left and the ack handler on the state the message handler left, and the
\* mailbox writes of the pass are in the order of the VF indices.
C29_SweepOrder ==
    SweptAll
      => /\ \A vf \in Vfs :
                LET r == ResetMsgAck(last.pre, vf, last.arg[vf])
                    ToVf(w) == w.vf = vf
                IN  /\ vfinfo[vf] = r.vfinfo[vf]
                    /\ SelectSeq(mbx, ToVf) = r.mbx
         /\ \A i \in 1..Len(mbx) : \A j \in 1..Len(mbx) :
                i < j => mbx[i].vf <= mbx[j].vf

\* VF 0, its handshake done, had the reset indicator and an API_NEGOTIATE
\* request pending: the version the request asked for is in the record that
\* the reset processing had set back to 1.0; the last VF, before its
\* handshake, had VF_RESET and the ack indicator pending: the ack met a VF
\* that was clear to send, and its only answer follows that of VF 0
C29_Witness ==
    /\ SweptAll
    /\ last.arg[0].rst /\ last.arg[0].msg
    /\ last.arg[0].rd.msg.op = IXGBE_VF_API_NEGOTIATE
    /\ last.arg[0].rd.msg.tags = {}
    /\ last.pre.vfinfo[0].clear_to_send
    /\ vfinfo[0].vf_api = ixgbe_mbox_api_13
    /\ IsResetRead(last.arg[NumVfs - 1]) /\ last.arg[NumVfs - 1].ack
    /\ ~last.pre.vfinfo[NumVfs - 1].clear_to_send
    /\ Len(mbx) = 2 /\ mbx[1].vf = 0 /\ mbx[2].vf = NumVfs - 1

(***************************************************************************)
(* Properties of the records after enabling                                *)
(***************************************************************************)
\* the record has the default policy and nothing of a handshake or of the
\* administrator
DefaultPolicy(v) ==
    /\ v.spoofchk_enabled /\ v.link_enable /\ ~v.trusted
    /\ v.xcast_mode = IXGBEVF_XCAST_MODE_NONE /\ ~v.rss_query_enabled
    /\ ~v.clear_to_send /\ ~v.pf_set_mac
    /\ v.vf_mac_addresses = ZeroMac
    /\ v.pf_vlan = 0 /\ v.pf_qos = 0

\* the table has the records 0..n-1 and each has the default policy
DefaultRecords(n) ==
    /\ vfinfo # NULL
    /\ \A i \in 0..(n - 1) : i \in DOMAIN vfinfo /\ DefaultPolicy(vfinfo[i])

\* the call that just ran asked ixgbe_pci_sriov_configure for n > 0 VFs and
\* got n back
ConfigureSucceeded ==
    /\ last # Idle /\ last.fn = "ixgbe_pci_sriov_configure"
    /\ last.arg.num_vfs > 0 /\ last.ret = last.arg.num_vfs

\* the call that just ran was ixgbe_enable_sriov and left SR-IOV enabled
ProbeSucceeded ==
    /\ last # Idle /\ last.fn = "ixgbe_enable_sriov"
    /\ "SRIOV_ENABLED" \in flags /\ num_vfs > 0

\* C28: right after a successful enable with n VFs every record 0..n-1 has
\* the default policy: spoof check on, link enabled, untrusted, xcast_mode
\* NONE, RSS query off, and clear_to_send false, pf_set_mac false, an empty
\* MAC address and no port VLAN.
C28_EnableDefaults ==
    /\ ConfigureSucceeded => DefaultRecords(last.arg.num_vfs)
    /\ ProbeSucceeded => DefaultRecords(num_vfs)

\* the same for the calls in which __ixgbe_enable_sriov ran: the PCI device
\* did not already have the number of VFs asked for
EnableDefaultsWhenAllocated ==
    /\ (ConfigureSucceeded /\ last.pre.pci.num_vf # last.arg.num_vfs)
         => DefaultRecords(last.arg.num_vfs) /\ num_vfs = last.arg.num_vfs
    /\ ProbeSucceeded => DefaultRecords(num_vfs)


(***************************************************************************)
(* Properties of ixgbe_disable_sriov                                       *)
(***************************************************************************)
\* the call that just ran was ixgbe_pci_sriov_configure(0) running
\* ixgbe_disable_sriov with SR-IOV enabled and detection not yet turned off
DisabledSriov ==
    /\ last # Idle /\ last.fn = "ixgbe_pci_sriov_configure"
    /\ last.arg.num_vfs = 0
    /\ last.pre.num_vfs # 0 \/ last.pre.pci.num_vf # 0
    /\ "SRIOV_ENABLED" \in last.pre.flags
    /\ ~last.pre.regs.mdd_disabled

\* C30: ixgbe_disable_sriov, called while SR-IOV is enabled, turns the
\* malicious driver detection off at the backend exactly when
\* IXGBE_FLAG_MDD_ENABLED is set; with the flag not set the backend's disable
\* operation is not called.
C30_DisableMdd ==
    DisabledSriov => (regs.mdd_disabled <=> "MDD_ENABLED" \in last.pre.flags)


(***************************************************************************)
(* Properties of the API version                                           *)
(***************************************************************************)
\* the call that just ran processed a reset of vf and no request after it:
\* the reset indicator alone, or a VF_RESET message
ResetRan(vf) ==
    /\ last # Idle /\ last.fn = "ixgbe_msg_task" /\ last.vf = vf
    /\ \/ last.arg.rst /\ ~last.arg.msg
       \/ IsResetRead(last.arg)

\* the requests that need a negotiated version
NeedApi ==
    { IXGBE_VF_GET_QUEUES, IXGBE_VF_UPDATE_XCAST_MODE, IXGBE_VF_GET_LINK_STATE,
      IXGBE_VF_GET_RETA, IXGBE_VF_GET_RSS_KEY }

\* the request of vf was answered with FAILURE, once, and nothing changed
FailedUnchanged(vf) ==
    /\ Len(mbx) = 1 /\ mbx[1].vf = vf
    /\ mbx[1].msg.op = last.arg.rd.msg.op
    /\ "FAILURE" \in mbx[1].msg.tags /\ "SUCCESS" \notin mbx[1].msg.tags
    /\ Now = last.pre

\* C31: every reset of a VF, by the reset indicator or by a VF_RESET message,
\* sets its API version to 1.0, and the version changes by nothing but a
\* reset and an API_NEGOTIATE of that VF; while the version is 1.0,
\* GET_QUEUES, UPDATE_XCAST_MODE, GET_LINK_STATE, GET_RETA and GET_RSS_KEY of
\* the VF are answered with FAILURE and change nothing; GET_RETA and
\* GET_RSS_KEY fail too, whatever the version, while rss_query_enabled is
\* false.
C31_ApiAfterReset ==
    \A vf \in Vfs :
        /\ ResetRan(vf) => vfinfo[vf].vf_api = ixgbe_mbox_api_10
        /\ (last # Idle /\ vfinfo[vf].vf_api # last.pre.vfinfo[vf].vf_api)
             => /\ last.fn = "ixgbe_msg_task" /\ last.vf = vf
                /\ \/ last.arg.rst
                   \/ IsResetRead(last.arg)
                   \/ /\ ReadRequest(vf)
                      /\ last.arg.rd.msg.op = IXGBE_VF_API_NEGOTIATE
                      /\ "SUCCESS" \in mbx[1].msg.tags
        /\ (/\ ReadRequest(vf) /\ last.arg.rd.msg.op \in NeedApi
             /\ last.pre.vfinfo[vf].vf_api = ixgbe_mbox_api_10)
             => FailedUnchanged(vf)
        /\ (/\ ReadRequest(vf)
             /\ last.arg.rd.msg.op \in {IXGBE_VF_GET_RETA, IXGBE_VF_GET_RSS_KEY}
             /\ ~last.pre.vfinfo[vf].rss_query_enabled)
             => FailedUnchanged(vf)

\* VF 0 was reset by the indicator after its handshake; still clear to send
\* and with the RSS query allowed, it asks for the redirection table before
\* negotiating again
C31_Witness ==
    /\ ReadRequest(0) /\ last.arg.rd.msg.op = IXGBE_VF_GET_RETA
    /\ rst_pending[0]
    /\ last.pre.vfinfo[0].clear_to_send
    /\ last.pre.vfinfo[0].rss_query_enabled
    /\ last.pre.vfinfo[0].vf_api = ixgbe_mbox_api_10
    /\ FailedUnchanged(0)


(***************************************************************************)
(* Properties of trust and the receive mode                                *)
(***************************************************************************)
\* C32: in every reachable state an untrusted VF has xcast_mode at most
\* MULTI, never ALLMULTI or PROMISC, also after the PF took the trust away
\* from a VF that had one of these modes and after the next reset handshake
\* of that VF.
C32_UntrustedAtMostMulti ==
    vfinfo # NULL
      => \A vf \in DOMAIN vfinfo :
            ~vfinfo[vf].trusted
              => vfinfo[vf].xcast_mode <= IXGBEVF_XCAST_MODE_MULTI

\* what holds of the requests: an UPDATE_XCAST_MODE that the PF answers with
\* SUCCESS for an untrusted VF leaves the VF with a mode of at most MULTI
UntrustedRequestAtMostMulti ==
    \A vf \in Vfs :
        (/\ ReadRequest(vf)
         /\ last.arg.rd.msg.op = IXGBE_VF_UPDATE_XCAST_MODE
         /\ ~last.pre.vfinfo[vf].trusted
         /\ Len(mbx) = 1 /\ "SUCCESS" \in mbx[1].msg.tags)
          => vfinfo[vf].xcast_mode <= IXGBEVF_XCAST_MODE_MULTI


(***************************************************************************)
(* Properties of the administrator's MAC address                           *)
(***************************************************************************)
\* pf_set_mac with no address in the record of vf
PinnedNoMac(a, vf) ==
    a.vfinfo[vf].pf_set_mac /\ a.vfinfo[vf].vf_mac_addresses = ZeroMac

\* the call that just ran put a MAC address on vf and the add of its filter
\* failed: ixgbe_ndo_set_vf_mac returning an error, a VF_RESET message
\* answered FAILURE, or a SET_MAC_ADDR answered FAILURE
AddFailed(vf) ==
    /\ last.vf = vf
    /\ MacTableUsed(Now) >= env.num_rar_entries
    /\ \/ last.fn = "ixgbe_ndo_set_vf_mac" /\ last.ret < 0
       \/ /\ last.fn = "ixgbe_msg_task" /\ last.arg.msg
          /\ last.arg.rd.msg.op \in {IXGBE_VF_RESET, IXGBE_VF_SET_MAC_ADDR}
          /\ Len(mbx) = 1 /\ "FAILURE" \in mbx[1].msg.tags

\* C33 as claimed: in every reachable state a VF with pf_set_mac holds a MAC
\* address that is not zero, also after an administrative set-MAC or a
\* reapply at reset whose add of the MAC filter failed.
C33_Original ==
    vfinfo # NULL => \A vf \in DOMAIN vfinfo : ~PinnedNoMac(Now, vf)

\* C33 (amended): a VF with pf_set_mac holds a MAC address that is not zero
\* unless the add of a MAC filter failed for it: a call leaves a VF with
\* pf_set_mac and no address, that had an address before, only when the
\* filter table is full and the call was an administrative set-MAC, a
\* VF_RESET or a SET_MAC_ADDR of a VF that had pf_set_mac already; after an
\* administrative set-MAC that succeeds the VF has pf_set_mac and the
\* address.
C33_PinnedMacExists ==
    \A vf \in Vfs :
        /\ (last # Idle /\ PinnedNoMac(Now, vf) /\ ~PinnedNoMac(last.pre, vf))
             => /\ AddFailed(vf)
                /\ last.pre.vfinfo[vf].pf_set_mac
        /\ (/\ last # Idle /\ last.fn = "ixgbe_ndo_set_vf_mac" /\ last.vf = vf
             /\ last.arg # ZeroMac /\ last.ret >= 0)
             => /\ vfinfo[vf].pf_set_mac
                /\ vfinfo[vf].vf_mac_addresses = last.arg
                /\ HasMacFilter(Now, vf, last.arg)

\* the administrator sets the address of a VF that has pf_set_mac again
\* while the filter table is full: the call fails and the VF keeps
\* pf_set_mac with no address
C33_Witness ==
    /\ last # Idle /\ last.fn = "ixgbe_ndo_set_vf_mac" /\ last.vf = 0
    /\ last.ret < 0
    /\ ~PinnedNoMac(last.pre, 0) /\ PinnedNoMac(Now, 0)


(***************************************************************************)
(* Properties of the control pings                                         *)
(***************************************************************************)
\* the control pings among the mailbox writes of the call that just ran
Pings == {i \in 1..Len(mbx) : mbx[i].msg.op = IXGBE_PF_CONTROL_MSG}

\* the ping carries CTS exactly when its VF is clear to send
CtsAsRecord(i) ==
    "CTS" \in mbx[i].msg.tags <=> vfinfo[mbx[i].vf].clear_to_send

\* C34: every control ping the PF writes to a VF, by ixgbe_ping_vf, by
\* ixgbe_ping_all_vfs and by the sweep of the malicious driver detection,
\* carries CTS if and only if clear_to_send of that VF is true when the ping
\* is written.
C34_PingCts == \A i \in Pings : CtsAsRecord(i)

\* the same without the sweep of the malicious driver detection, and each
\* VF is pinged once by ixgbe_ping_all_vfs
PingCtsButMdd ==
    /\ (last # Idle /\ last.fn # "ixgbe_check_mdd_event")
         => \A i \in Pings : CtsAsRecord(i)
    /\ (last # Idle /\ last.fn = "ixgbe_ping_all_vfs")
         => /\ Len(mbx) = num_vfs
            /\ \A i \in 1..Len(mbx) : i \in Pings /\ mbx[i].vf = i - 1


(***************************************************************************)
(* Properties of the administrative link state                             *)
(***************************************************************************)
\* the receive-enable and the transmit-enable bit of the VF are clear
RxOff(vf) == vf \notin regs.vfre
TxOff(vf) == vf \notin regs.vfte

\* C35: a VF whose link is administratively disabled never has its bit in
\* VFRE or in VFTE set: ixgbe_set_vf_link_state clears them, and no mailbox
\* message of the VF sets them again while link_enable stays false.
C35_DisabledNoRxTx ==
    \A vf \in Vfs : ~vfinfo[vf].link_enable => RxOff(vf) /\ TxOff(vf)

\* what holds: the transmit bit stays clear everywhere, the receive bit
\* stays clear on every MAC but 82599, and on 82599 it is clear after a
\* change of the link state, after a VF_RESET message and after a SET_LPE
\* request that was refused
DisabledNoRxTxButLpe ==
    \A vf \in Vfs :
        ~vfinfo[vf].link_enable =>
          /\ TxOff(vf)
          /\ env.mac_type # ixgbe_mac_82599EB => RxOff(vf)
          /\ (last # Idle /\ last.fn = "ixgbe_ndo_set_vf_link_state"
                /\ last.vf = vf /\ last.arg # IFLA_VF_LINK_STATE_ENABLE)
                => RxOff(vf)
          /\ (ReadReset(vf) \/ (ReadSetLpe(vf) /\ LpeUnsatisfiable(vf)))
                => RxOff(vf)


(***************************************************************************)
(* Properties of the MAC-VLAN slots with a full MAC table (SpecSlots)      *)
(***************************************************************************)
\* the slot is free and has no owner, or it is in use, owned by a VF, and
\* holds a valid unicast address
SlotWellFormed(e) ==
    \/ e.free /\ e.vf = -1
    \/ /\ ~e.free
       /\ e.vf \in 0..(num_vfs - 1)
       /\ is_valid_ether_addr(e.vf_macvlan)

\* the slots the call allocated: in use now, and free when the call began
\* or released by the call (index 0 or 1 releases the slots of the VF)
TakenSlots(vf) ==
    {i \in UsedSlots(Now) :
        \/ last.pre.mv_list[i].free
        \/ last.arg.rd.msg.info <= 1 /\ last.pre.mv_list[i].vf = vf}

\* the call was given a SET_MACVLAN request with a nonzero index that got
\* as far as ixgbe_set_vf_macvlan
ReadMacvlanAdd(vf) == ReadSetMacvlan(vf) /\ last.arg.rd.msg.info # 0

\* the MAC table had no room when ixgbe_add_mac_filter was called: it was
\* full when the call began and the call released no slot before
TableFull(vf) ==
    /\ MacTableUsed(last.pre) >= last.pre.env.num_rar_entries
    /\ last.arg.rd.msg.info > 1 \/ OwnedSlots(last.pre, vf) = {}

\* C36: in every reachable state each MAC-VLAN slot is either free with
\* owner -1, or in use with an owner in 0..num_vfs-1 and a valid unicast
\* address; ixgbe_set_vf_macvlan with a nonzero index allocates at most one
\* slot per call, and marks it owned only after ixgbe_add_mac_filter
\* succeeded: the slot it took holds the address asked for and has its MAC
\* filter, and with the MAC table full no slot is taken.
C36_SlotsWellFormed ==
    /\ \A i \in DOMAIN mv_list : SlotWellFormed(mv_list[i])
    /\ \A vf \in Vfs : ReadMacvlanAdd(vf) =>
         /\ Cardinality(TakenSlots(vf)) <= 1
         /\ \A i \in TakenSlots(vf) :
                /\ mv_list[i].vf = vf
                /\ mv_list[i].vf_macvlan = last.arg.rd.msg.mac
                /\ HasMacFilter(Now, vf, last.arg.rd.msg.mac)
                /\ MacTableUsed(Now) <= env.num_rar_entries
                /\ "SUCCESS" \in mbx[1].msg.tags
         /\ TableFull(vf) =>
                /\ TakenSlots(vf) = {}
                /\ "FAILURE" \in mbx[1].msg.tags
                /\ \A i \in DOMAIN mv_list :
                       mv_list[i].free \/ mv_list[i] = last.pre.mv_list[i]

\* C36 witness: with a slot in use and another one free, a VF asked for
\* one more filter while the MAC table was full: no slot was taken
C36_Witness ==
    \E vf \in Vfs :
        /\ ReadMacvlanAdd(vf)
        /\ TableFull(vf)
        /\ UsedSlots(last.pre) # {}
        /\ mv_first_free(last.pre) # -1
        /\ UsedSlots(Now) = UsedSlots(last.pre)

\* a call that took a slot
SlotTaken == \E vf \in Vfs : ReadMacvlanAdd(vf) /\ TakenSlots(vf) # {}


(***************************************************************************)
(* Properties of refused SET_MAC_ADDR requests (SpecMac)                   *)
(***************************************************************************)
\* the call was given a SET_MAC_ADDR message of vf and answered FAILURE
SetMacFailed(vf) ==
    /\ ReadRequest(vf)
    /\ last.arg.rd.msg.op = IXGBE_VF_SET_MAC_ADDR
    /\ Len(mbx) = 1 /\ mbx[1].vf = vf
    /\ "FAILURE" \in mbx[1].msg.tags

\* the request got as far as ixgbe_set_vf_mac: the VF was clear to send,
\* the address valid, and the PF had not pinned another one
SetMacTried(vf) ==
    /\ ReadSetMac(vf)
    /\ is_valid_ether_addr(last.arg.rd.msg.mac)
    /\ ~(last.pre.vfinfo[vf].pf_set_mac /\ ~last.pre.vfinfo[vf].trusted
           /\ last.arg.rd.msg.mac # PreMac(vf))

SetMacRefused ==
    \E vf \in Vfs :
        /\ SetMacFailed(vf) /\ ReadSetMac(vf) /\ ~SetMacTried(vf)
        /\ last.pre.vfinfo[vf].pf_set_mac
        /\ is_valid_ether_addr(last.arg.rd.msg.mac)


(***************************************************************************)
(* Properties of anti-spoofing and the MAC-VLAN slots (SpecSlots)          *)
(***************************************************************************)
\* MAC and VLAN anti-spoofing of the VF are on in the hardware
AntiSpoofOn(a, vf) == vf \in a.regs.mac_spoof /\ vf \in a.regs.vlan_spoof

\* C38: for a VF with spoofchk_enabled, hardware MAC/VLAN anti-spoofing is
\* off only while the VF owns at least one MAC-VLAN slot: a SET_MACVLAN
\* request that fails leaves it on, and after the VF cleared its filters or
\* was reset it is on again.
C38_SpoofOffOnlyWithSlot ==
    \A vf \in Vfs :
        (vfinfo[vf].spoofchk_enabled /\ OwnedSlots(Now, vf) = {})
          => AntiSpoofOn(Now, vf)

\* what the code does: a SET_MACVLAN request with a nonzero index and a
\* valid address from a VF with spoofchk_enabled turns anti-spoofing off
\* before the slot is looked for, whether the request then succeeds or
\* fails, and no request and no reset turns it on again
SpoofOffByRequest ==
    \A vf \in Vfs :
        last # Idle =>
          /\ ReadMacvlanAdd(vf) => ~AntiSpoofOn(Now, vf)
          /\ ~ReadMacvlanAdd(vf)
               => AntiSpoofOn(Now, vf) = AntiSpoofOn(last.pre, vf)

\* a refused request that turned anti-spoofing off
SpoofOffByRefusal ==
    \E vf \in Vfs :
        /\ ReadMacvlanAdd(vf)
        /\ "FAILURE" \in mbx[1].msg.tags
        /\ AntiSpoofOn(last.pre, vf)
        /\ ~AntiSpoofOn(Now, vf)
        /\ OwnedSlots(Now, vf) = {}

====
